---- MODULE Spec2Model ----
(***************************************************************************)
(* EduCoach reminder scheduling: the Task and CalendarEvent collections    *)
(* held by App, the two poll loops (TaskManager "Reminder Check Loop" and  *)
(* Scheduler "Alert Logic"), the user handlers that write the collections  *)
(* and the cross-import hooks between them.                                *)
(*                                                                         *)
(* React state is modelled by two values per collection: the state itself  *)
(* (tasks, events: the value every functional update `prev => ...`         *)
(* receives) and the copy captured by the mounted component's last render  *)
(* (rTasks, rEvents: the `tasks` / `events` a handler or the interval      *)
(* callback closes over).  Render is the commit that brings the copy up to *)
(* date and re-arms the interval.                                          *)
(***************************************************************************)
EXTENDS Integers, Sequences, FiniteSets, TLC

VARIABLES
    clock,      \* index of the current instant
    now,        \* wall clock, ms (new Date().getTime())
    view,       \* App.currentView: which component is mounted
    tasks,      \* App state `tasks`
    events,     \* App state `events`
    rTasks,     \* `tasks` prop captured by TaskManager's last render
    rEvents,    \* `events` prop captured by Scheduler's last render
    nextId,     \* stands for Date.now().toString(): a fresh id per creation
    ops,        \* number of single-record user operations so far (at most MaxOps)
    fired,      \* what the last interval callback did, until React commits it
    timer,      \* the setInterval timers of the two components, at 1 s resolution
    parse,      \* a call of parseSmartDate: arguments, wall clock and result
    series      \* Scheduler.handleSave generating a recurring series: its locals

vars == <<clock, now, view, tasks, events, rTasks, rEvents, nextId, ops, fired, timer, parse,
          series>>

(* The state of the reminder model proper *)
schedVars == <<clock, now, view, tasks, events, rTasks, rEvents, nextId, ops, fired>>

----------------------------------------------------------------------------
(* Program constants *)

MinuteMs ==
    60000

WindowMs ==
    7200000

HourMs ==
    60 * 60 * 1000

TaskPeriodMs ==
    2000

EventPeriodMs ==
    10000

(* Bounds of the model *)

MaxClock ==
    2

MaxOps ==
    2

(* Number of one-second steps the timers are followed for *)
MaxTime ==
    26

(* The clock is read at the instants T0 + 0, 3, 5, 8, 10, ... minutes:     *)
(* steps of three and two minutes in turn, so that the 3 minute interval   *)
(* is met exactly (0 to 3) and missed (3 to 5) and the 5 minute interval   *)
(* is missed (0 to 3) and met exactly (0 to 5).                            *)
T0 ==
    200 * MinuteMs

Instant(k) ==
    T0 + ((5 * k + 1) \div 2) * MinuteMs

(* `undefined` for the optional lastAlertedAt *)
Undefined ==
    0 - 1

Repeats ==
    {"once", "every_3", "every_5"}

(* The alertRepeat choices followed for the event form *)
EventRepeats ==
    {"once", "every_3"}

(* Due times a user types into the task form (minute resolution) *)
DueTimes ==
    { T0 - MinuteMs, T0 + 2 * MinuteMs }

(* What a user types into the event form (date, start and end time, alert  *)
(* offset in minutes): a slot that ended almost two hours before T0, and   *)
(* a slot that starts after T0 with its alert 15 minutes before.           *)
EventForms ==
    { [start |-> T0 - 3 * HourMs, end |-> (T0 - WindowMs) + 3 * MinuteMs, alertOffset |-> 0],
      [start |-> T0 + 17 * MinuteMs, end |-> T0 + 77 * MinuteMs, alertOffset |-> 15] }

(* The timers before any component with an interval is mounted: App       *)
(* starts on the dashboard.  `live` holds the intervals that exist, `last` *)
(* the time of the last callback of each kind (-1: none yet), `gap` the    *)
(* time between the last two callbacks (0: fewer than two), `restarted`    *)
(* whether the interval was re-created since the last callback, and        *)
(* `clean` whether the last gap saw no re-creation.                        *)
NoTimer ==
    [t |-> 0, view |-> "DASHBOARD", live |-> {},
     last |-> [task |-> 0 - 1, event |-> 0 - 1],
     gap |-> [task |-> 0, event |-> 0],
     restarted |-> [task |-> FALSE, event |-> FALSE],
     clean |-> [task |-> TRUE, event |-> TRUE]]

NoParse ==
    [text |-> <<>>]

NoSeries ==
    [pc |-> "idle"]

NoTick ==
    [kind |-> "none", eligible |-> {}, ids |-> {}, at |-> 0,
     notified |-> {}, rejected |-> {}]

----------------------------------------------------------------------------
(* Helpers over collections *)

Range(s) ==
    { s[i] : i \in DOMAIN s }

Ids(s) ==
    { s[i].id : i \in DOMAIN s }

MapSeq(s, F(_)) ==
    [i \in DOMAIN s |-> F(s[i])]

(* A date shown in a form field keeps hours and minutes only               *)
(* (toTimeString(...).slice(0, 5), toISOString().slice(0, 16)).            *)
ToMinute(ms) ==
    (ms \div MinuteMs) * MinuteMs

(* x || 0 *)
OrZero(x) ==
    IF x = Undefined \/ x = 0 THEN 0 ELSE x

----------------------------------------------------------------------------
(* Eligibility: the filters of the two interval callbacks *)

(* t.alertRepeat === 'every_3' ? 3 * 60000 : 5 * 60000 *)
RepeatInterval(r) ==
    IF r = "every_3" THEN 3 * MinuteMs ELSE 5 * MinuteMs

(* Mutant: the repeat interval must be exceeded, not reached. *)
TaskEligibleStrict(t, n) ==
    IF t.completed THEN FALSE
    ELSE IF t.dueDate > n THEN FALSE
    ELSE IF t.alertRepeat = "once" THEN ~t.hasAlerted
    ELSE IF ~t.hasAlerted THEN TRUE
    ELSE (n - OrZero(t.lastAlertedAt)) > RepeatInterval(t.alertRepeat)

(* Mutant: the completed flag is not looked at. *)
TaskEligibleIgnoringCompleted(t, n) ==
    IF t.dueDate > n THEN FALSE
    ELSE IF t.alertRepeat = "once" THEN ~t.hasAlerted
    ELSE IF ~t.hasAlerted THEN TRUE
    ELSE (n - OrZero(t.lastAlertedAt)) >= RepeatInterval(t.alertRepeat)

(* Mutant: a 'once' task is handled like a repeating one. *)
TaskEligibleOnceRepeats(t, n) ==
    IF t.completed THEN FALSE
    ELSE IF t.dueDate > n THEN FALSE
    ELSE IF ~t.hasAlerted THEN TRUE
    ELSE (n - OrZero(t.lastAlertedAt)) >= RepeatInterval(t.alertRepeat)

(* Mutant: a repeating task that has alerted needs a lastAlertedAt. *)
TaskEligibleStampRequired(t, n) ==
    IF t.completed THEN FALSE
    ELSE IF t.dueDate > n THEN FALSE
    ELSE IF t.alertRepeat = "once" THEN ~t.hasAlerted
    ELSE IF ~t.hasAlerted THEN TRUE
    ELSE IF t.lastAlertedAt = Undefined THEN FALSE
    ELSE (n - t.lastAlertedAt) >= RepeatInterval(t.alertRepeat)

(* The filter callback of tasksToAlert *)
TaskEligible(t, n) ==
    IF t.completed THEN FALSE
    ELSE IF t.dueDate > n THEN FALSE
    ELSE IF t.alertRepeat = "once" THEN ~t.hasAlerted
    ELSE IF ~t.hasAlerted THEN TRUE
    ELSE (n - OrZero(t.lastAlertedAt)) >= RepeatInterval(t.alertRepeat)

TriggerTime(ev) ==
    ev.start - ev.alertOffset * MinuteMs

(* Mutant: no trailing window after the end of the event. *)
IsValidWindowNoEnd(ev, n) ==
    n >= TriggerTime(ev)

IsValidWindow(ev, n) ==
    n >= TriggerTime(ev) /\ (n - ev.end < WindowMs)

(* The filter callback of eventsToAlert *)
EventEligible(ev, n) ==
    IF ~IsValidWindow(ev, n) THEN FALSE
    ELSE IF ev.alertRepeat = "once" THEN ~ev.hasAlerted
    ELSE IF ~ev.hasAlerted THEN TRUE
    ELSE (n - OrZero(ev.lastAlertedAt)) >= RepeatInterval(ev.alertRepeat)

TasksToAlert(ts, n) ==
    SelectSeq(ts, LAMBDA t : TaskEligible(t, n))

EventsToAlert(es, n) ==
    SelectSeq(es, LAMBDA ev : EventEligible(ev, n))

----------------------------------------------------------------------------
(* State updates of the interval callbacks *)

(* Mutant: the time since the last alert is stored, not the time of this one. *)
MarkTaskAlertedElapsed(t, n) ==
    [t EXCEPT !.hasAlerted = TRUE, !.lastAlertedAt = n - OrZero(t.lastAlertedAt)]

MarkTaskAlerted(t, n) ==
    [t EXCEPT !.hasAlerted = TRUE, !.lastAlertedAt = n]

MarkEventAlerted(ev, n) ==
    [ev EXCEPT !.hasAlerted = TRUE, !.lastAlertedAt = n]

(* Mutant: every eligible task is handled in the same callback. *)
TasksToFireAll(toAlert) ==
    toAlert

(* tasksToAlert[0]: "Handle one at a time" *)
TasksToFire(toAlert) ==
    IF Len(toAlert) > 0 THEN <<toAlert[1]>> ELSE <<>>

(* Mutant: one event per callback, as for tasks. *)
EventsToFireFirst(toAlert) ==
    IF Len(toAlert) > 0 THEN <<toAlert[1]>> ELSE <<>>

(* eventsToAlert.forEach: every eligible event *)
EventsToFire(toAlert) ==
    toAlert

(* Mutant: the collection is written back from the callback's own copy. *)
TaskTickUpdateFromSnapshot(prev, snapshot, firedIds, n) ==
    MapSeq(snapshot, LAMBDA t : IF t.id \in firedIds THEN MarkTaskAlerted(t, n) ELSE t)

(* setTasks(prevTasks => prevTasks.map(...)) *)
TaskTickUpdate(prev, snapshot, firedIds, n) ==
    MapSeq(prev, LAMBDA t : IF t.id \in firedIds THEN MarkTaskAlerted(t, n) ELSE t)

(* setEvents(prev => prev.map(...)) *)
EventTickUpdate(prev, snapshot, firedIds, n) ==
    MapSeq(prev, LAMBDA ev : IF ev.id \in firedIds THEN MarkEventAlerted(ev, n) ELSE ev)

----------------------------------------------------------------------------
(* Side effects of the interval callbacks *)

(* Mutant: a playback that fails throws into the interval callback. *)
PlayAlarmThrowing(sound, rejected) ==
    IF sound = "none" THEN "silent"
    ELSE IF rejected THEN "thrown"
    ELSE "played"

(* TaskManager.playAlarm and the sound block of the Scheduler callback:    *)
(* nothing is played for 'none'; play() returns a promise whose rejection  *)
(* is handed to console.warn, so the caller never sees a failure.          *)
PlayAlarm(sound, rejected) ==
    IF sound = "none" THEN "silent"
    ELSE IF rejected THEN "logged"
    ELSE "played"

(* ev.alertSound || 'chime' *)
EventSound(ev) ==
    IF ev.alertSound = "" THEN "chime" ELSE ev.alertSound

(* The entries of toFire whose playback failed *)
Rejected(toFire, failing, Sound(_)) ==
    { toFire[i].id : i \in { j \in DOMAIN toFire :
                                PlayAlarm(Sound(toFire[j]), toFire[j].id \in failing)
                                    \notin {"silent", "played"} } }

(* Statements run in order: the notification of an entry is raised when    *)
(* no playback up to and including its own has thrown.                     *)
Notified(toFire, failing, Sound(_)) ==
    { toFire[i].id : i \in { j \in DOMAIN toFire :
                                \A k \in 1..j :
                                   PlayAlarm(Sound(toFire[k]), toFire[k].id \in failing) # "thrown" } }

(* The state update follows the side effects of every entry. *)
ReachesUpdate(toFire, failing, Sound(_)) ==
    \A k \in DOMAIN toFire :
        PlayAlarm(Sound(toFire[k]), toFire[k].id \in failing) # "thrown"

----------------------------------------------------------------------------
(* Records built by the handlers *)

NewTask(id, due, repeat) ==
    [ id |-> id, completed |-> FALSE, dueDate |-> due,
      notifyEmail |-> TRUE, notifySms |-> FALSE, alarmSound |-> "chime",
      hasAlerted |-> FALSE, alertRepeat |-> repeat, lastAlertedAt |-> Undefined ]

NewEvent(id, form, repeat, sound, email, sms) ==
    [ id |-> id, start |-> form.start, end |-> form.end,
      notifyEmail |-> email, notifySms |-> sms, alertOffset |-> form.alertOffset,
      alertSound |-> sound, alertRepeat |-> repeat,
      hasAlerted |-> FALSE, lastAlertedAt |-> Undefined ]

(* App.handleTaskToSchedule *)
TaskToEvent(task) ==
    [ id |-> [pre |-> "evt", n |-> task.id.n],
      start |-> task.dueDate, end |-> task.dueDate + HourMs,
      notifyEmail |-> FALSE, notifySms |-> FALSE, alertOffset |-> 0,
      alertSound |-> "none", alertRepeat |-> "once",
      hasAlerted |-> TRUE, lastAlertedAt |-> Undefined ]

(* App.handleEventToTask *)
EventToTask(ev) ==
    [ id |-> [pre |-> "task", n |-> ev.id.n],
      completed |-> FALSE, dueDate |-> ev.start,
      notifyEmail |-> FALSE, notifySms |-> FALSE, alarmSound |-> "none",
      hasAlerted |-> TRUE, alertRepeat |-> "once", lastAlertedAt |-> Undefined ]

(* Mutant: lastAlertedAt survives a change of the due date. *)
EditedTaskKeepingStamp(t, due, repeat, n) ==
    LET isDueDateChanged == due # t.dueDate IN
    [ t EXCEPT !.dueDate = due,
               !.alertRepeat = repeat,
               !.hasAlerted = IF isDueDateChanged /\ due > n THEN FALSE ELSE t.hasAlerted ]

(* Mutant: any change of the due date clears hasAlerted. *)
EditedTaskAlwaysReset(t, due, repeat, n) ==
    LET isDueDateChanged == due # t.dueDate IN
    [ t EXCEPT !.dueDate = due,
               !.alertRepeat = repeat,
               !.hasAlerted = IF isDueDateChanged THEN FALSE ELSE t.hasAlerted,
               !.lastAlertedAt = IF isDueDateChanged THEN Undefined ELSE t.lastAlertedAt ]

(* TaskManager.handleSave, "Update existing": the record written for the   *)
(* edited task; n is `new Date()` at the save.                             *)
EditedTask(t, due, repeat, n) ==
    LET isDueDateChanged == due # t.dueDate IN
    [ t EXCEPT !.dueDate = due,
               !.alertRepeat = repeat,
               !.hasAlerted = IF isDueDateChanged /\ due > n THEN FALSE ELSE t.hasAlerted,
               !.lastAlertedAt = IF isDueDateChanged THEN Undefined ELSE t.lastAlertedAt ]

(* TaskManager.openEditTaskModal: the due date the form is prefilled with  *)
DueOf(t) ==
    ToMinute(t.dueDate)

(* Scheduler.openEditEventModal: date, start time, end time and offset of  *)
(* the form as prefilled from the event                                    *)
FormOf(ev) ==
    [start |-> ToMinute(ev.start), end |-> ToMinute(ev.end), alertOffset |-> ev.alertOffset]

(* Scheduler.handleSave, single instance on the edit path: the form is     *)
(* prefilled from the event (openEditEventModal), the record is rebuilt    *)
(* from baseEventPayload.                                                  *)
EditedEvent(ev, form, repeat) ==
    NewEvent(ev.id, form, repeat,
             IF ev.alertSound = "" THEN "chime" ELSE ev.alertSound,
             ev.notifyEmail, ev.notifySms)

----------------------------------------------------------------------------
Init ==
    /\ clock = 0
    /\ now = Instant(0)
    /\ view = "DASHBOARD"
    /\ tasks = <<>>
    /\ events = <<>>
    /\ rTasks = <<>>
    /\ rEvents = <<>>
    /\ nextId = 1
    /\ ops = 0
    /\ fired = NoTick
    /\ timer = NoTimer
    /\ parse = NoParse
    /\ series = NoSeries

(* A callback that alerted nothing schedules no render: its record is      *)
(* dropped by the next step.  One that alerted stays until the commit.     *)
Settled(f) ==
    IF f.eligible = {} THEN NoTick ELSE f

(* A user operation on one record (create, edit, toggle, delete): the      *)
(* model follows at most MaxOps of them.  The two bulk clears are not      *)
(* counted: they only empty what the counted operations have built.        *)
UserOp ==
    /\ ops < MaxOps
    /\ ops' = ops + 1

(* React commits the update of an event handler before the next event is   *)
(* dispatched: a handler finds the props of a render that has seen every   *)
(* earlier handler.  What it may not have seen is the update of an         *)
(* interval callback that is still waiting for its commit.                 *)
HandlersCurrent ==
    /\ view = "TASKS" =>
          tasks = IF fired.kind = "task"
                  THEN TaskTickUpdate(rTasks, rTasks, fired.ids, fired.at)
                  ELSE rTasks
    /\ view = "SCHEDULER" =>
          events = IF fired.kind = "event"
                   THEN EventTickUpdate(rEvents, rEvents, fired.ids, fired.at)
                   ELSE rEvents

(* No state update is waiting for React to commit it. *)
Committed ==
    /\ fired.eligible = {}
    /\ view = "TASKS" => rTasks = tasks
    /\ view = "SCHEDULER" => rEvents = events

(* Time passes to the next instant.  A commit takes milliseconds, so no    *)
(* update stays uncommitted across instants.                               *)
Advance ==
    /\ Committed
    /\ clock < MaxClock
    /\ clock' = clock + 1
    /\ now' = Instant(clock + 1)
    /\ fired' = Settled(fired)
    /\ UNCHANGED <<ops, view, tasks, events, rTasks, rEvents, nextId, timer, parse, series>>

(* App.renderView: switching the view unmounts one component (its interval *)
(* is cleared) and mounts another, which renders with the current state.   *)
SetView(v) ==
    /\ v # view
    /\ view' = v
    /\ rTasks' = IF v = "TASKS" THEN tasks ELSE <<>>
    /\ rEvents' = IF v = "SCHEDULER" THEN events ELSE <<>>
    /\ fired' = NoTick
    /\ UNCHANGED <<ops, clock, now, tasks, events, nextId, timer, parse, series>>

(* React commits the pending state: the mounted component re-renders with  *)
(* the current collection and its effect re-creates the interval.          *)
Render ==
    /\ \/ view = "TASKS" /\ (rTasks # tasks \/ fired.eligible # {})
       \/ view = "SCHEDULER" /\ (rEvents # events \/ fired.eligible # {})
    /\ rTasks' = IF view = "TASKS" THEN tasks ELSE <<>>
    /\ rEvents' = IF view = "SCHEDULER" THEN events ELSE <<>>
    /\ fired' = NoTick
    /\ UNCHANGED <<ops, clock, now, view, tasks, events, nextId, timer, parse, series>>

(* Mutant: the callback also stamps the calendar copy of the task it fires. *)
TaskTickStampingImport ==
    /\ view = "TASKS"
    /\ fired.eligible = {}
    /\ LET toAlert == TasksToAlert(rTasks, now)
           toFire  == TasksToFire(toAlert)
       IN /\ fired' = [kind |-> "task", eligible |-> Ids(toAlert),
                       ids |-> Ids(toFire), at |-> now,
                       notified |-> Ids(toFire), rejected |-> {}]
          /\ tasks' = TaskTickUpdate(tasks, rTasks, Ids(toFire), now)
          /\ events' = MapSeq(events, LAMBDA ev :
                          IF ev.id.pre = "evt" /\ [pre |-> "", n |-> ev.id.n] \in Ids(toFire)
                          THEN MarkEventAlerted(ev, now) ELSE ev)
    /\ UNCHANGED <<ops, clock, now, view, rTasks, rEvents, nextId, timer, parse, series>>

(* TaskManager: Reminder Check Loop, one interval callback *)
TaskTick ==
    /\ view = "TASKS"
    /\ fired.eligible = {}
    /\ LET toAlert == TasksToAlert(rTasks, now)
           toFire  == TasksToFire(toAlert)
       IN \E failing \in SUBSET Ids(toFire) :
             /\ fired' = [kind |-> "task", eligible |-> Ids(toAlert),
                          ids |-> Ids(toFire), at |-> now,
                          notified |-> Notified(toFire, failing, LAMBDA t : t.alarmSound),
                          rejected |-> Rejected(toFire, failing, LAMBDA t : t.alarmSound)]
             /\ tasks' = IF Len(toAlert) > 0
                            /\ ReachesUpdate(toFire, failing, LAMBDA t : t.alarmSound)
                         THEN TaskTickUpdate(tasks, rTasks, Ids(toFire), now)
                         ELSE tasks
    /\ UNCHANGED <<ops, clock, now, view, events, rTasks, rEvents, nextId, timer, parse, series>>

(* Scheduler: Alert Logic, one interval callback *)
EventTick ==
    /\ view = "SCHEDULER"
    /\ fired.eligible = {}
    /\ LET toAlert == EventsToAlert(rEvents, now)
           toFire  == EventsToFire(toAlert)
       IN \E failing \in SUBSET Ids(toFire) :
             /\ fired' = [kind |-> "event", eligible |-> Ids(toAlert),
                          ids |-> Ids(toFire), at |-> now,
                          notified |-> Notified(toFire, failing, EventSound),
                          rejected |-> Rejected(toFire, failing, EventSound)]
             /\ events' = IF Len(toAlert) > 0
                             /\ ReachesUpdate(toFire, failing, EventSound)
                          THEN EventTickUpdate(events, rEvents, Ids(toFire), now)
                          ELSE events
    /\ UNCHANGED <<ops, clock, now, view, tasks, rTasks, rEvents, nextId, timer, parse, series>>

(* TaskManager.toggleComplete *)
ToggleComplete(id) ==
    /\ UserOp
    /\ HandlersCurrent
    /\ view = "TASKS"
    /\ id \in Ids(rTasks)
    /\ tasks' = MapSeq(rTasks, LAMBDA t : IF t.id = id
                                          THEN [t EXCEPT !.completed = ~t.completed]
                                          ELSE t)
    /\ fired' = Settled(fired)
    /\ UNCHANGED <<clock, now, view, events, rTasks, rEvents, nextId, timer, parse, series>>

(* TaskManager.deleteTask *)
DeleteTask(id) ==
    /\ UserOp
    /\ HandlersCurrent
    /\ view = "TASKS"
    /\ id \in Ids(rTasks)
    /\ tasks' = SelectSeq(rTasks, LAMBDA t : t.id # id)
    /\ fired' = Settled(fired)
    /\ UNCHANGED <<clock, now, view, events, rTasks, rEvents, nextId, timer, parse, series>>

(* TaskManager.clearCompleted (the button is rendered when some task of    *)
(* the rendered list is completed)                                         *)
ClearCompleted ==
    /\ ops' = ops
    /\ HandlersCurrent
    /\ view = "TASKS"
    /\ \E t \in Range(rTasks) : t.completed
    /\ tasks' = SelectSeq(rTasks, LAMBDA t : ~t.completed)
    /\ fired' = Settled(fired)
    /\ UNCHANGED <<clock, now, view, events, rTasks, rEvents, nextId, timer, parse, series>>

(* Mutant: the imported event is handed back to the task import. *)
CreateTaskCascading(due, repeat) ==
    /\ UserOp
    /\ HandlersCurrent
    /\ view = "TASKS"
    /\ LET newTask == NewTask([pre |-> "", n |-> nextId], due, repeat)
       IN /\ tasks' = Append(Append(tasks, newTask), EventToTask(TaskToEvent(newTask)))
          /\ events' = Append(events, TaskToEvent(newTask))
    /\ nextId' = nextId + 1
    /\ fired' = Settled(fired)
    /\ UNCHANGED <<clock, now, view, rTasks, rEvents, timer, parse, series>>

(* TaskManager.handleSave, "Create new", with onAddToSchedule *)
CreateTask(due, repeat) ==
    /\ UserOp
    /\ HandlersCurrent
    /\ view = "TASKS"
    /\ LET newTask == NewTask([pre |-> "", n |-> nextId], due, repeat)
       IN /\ tasks' = Append(tasks, newTask)
          /\ events' = Append(events, TaskToEvent(newTask))
    /\ nextId' = nextId + 1
    /\ fired' = Settled(fired)
    /\ UNCHANGED <<clock, now, view, rTasks, rEvents, timer, parse, series>>

(* TaskManager.handleSave, "Update existing" *)
EditTask(id, due, repeat) ==
    /\ UserOp
    /\ HandlersCurrent
    /\ view = "TASKS"
    /\ id \in Ids(rTasks)
    /\ tasks' = MapSeq(rTasks, LAMBDA t : IF t.id = id
                                          THEN EditedTask(t, due, repeat, now)
                                          ELSE t)
    /\ fired' = Settled(fired)
    /\ UNCHANGED <<clock, now, view, events, rTasks, rEvents, nextId, timer, parse, series>>

(* Scheduler.handleSave, create mode, single instance, with onAddToTask *)
CreateEvent(form, repeat) ==
    /\ UserOp
    /\ HandlersCurrent
    /\ view = "SCHEDULER"
    /\ LET newEvent == NewEvent([pre |-> "", n |-> nextId], form, repeat,
                                "chime", TRUE, FALSE)
       IN /\ events' = Append(events, newEvent)
          /\ tasks' = Append(tasks, EventToTask(newEvent))
    /\ nextId' = nextId + 1
    /\ fired' = Settled(fired)
    /\ UNCHANGED <<clock, now, view, rTasks, rEvents, timer, parse, series>>

(* Scheduler.handleSave, edit mode, no recurrence *)
EditEvent(id, form, repeat) ==
    /\ UserOp
    /\ HandlersCurrent
    /\ view = "SCHEDULER"
    /\ id \in Ids(rEvents)
    /\ LET shown == CHOOSE ev \in Range(rEvents) : ev.id = id
       IN events' = MapSeq(events, LAMBDA ev : IF ev.id = id
                                               THEN EditedEvent(shown, form, repeat)
                                               ELSE ev)
    /\ fired' = Settled(fired)
    /\ UNCHANGED <<clock, now, view, tasks, rTasks, rEvents, nextId, timer, parse, series>>

(* Scheduler.handleDelete *)
DeleteEvent(id) ==
    /\ UserOp
    /\ HandlersCurrent
    /\ view = "SCHEDULER"
    /\ id \in Ids(rEvents)
    /\ events' = SelectSeq(events, LAMBDA ev : ev.id # id)
    /\ fired' = Settled(fired)
    /\ UNCHANGED <<clock, now, view, tasks, rTasks, rEvents, nextId, timer, parse, series>>

(* Scheduler.handleClearAllEvents *)
ClearAllEvents ==
    /\ ops' = ops
    /\ HandlersCurrent
    /\ view = "SCHEDULER"
    /\ Len(rEvents) > 0
    /\ events' = <<>>
    /\ fired' = Settled(fired)
    /\ UNCHANGED <<clock, now, view, tasks, rTasks, rEvents, nextId, timer, parse, series>>

Next ==
    \/ Advance
    \/ \E v \in {"TASKS", "SCHEDULER"} : SetView(v)
    \/ Render
    \/ TaskTick
    \/ EventTick
    \/ \E id \in Ids(rTasks) : ToggleComplete(id)
    \/ \E id \in Ids(rTasks) : DeleteTask(id)
    \/ ClearCompleted
    \/ \E due \in DueTimes, repeat \in Repeats : CreateTask(due, repeat)
    \/ \E t \in Range(rTasks), due \in DueTimes : EditTask(t.id, due, t.alertRepeat)
    \/ \E t \in Range(rTasks), repeat \in Repeats : EditTask(t.id, DueOf(t), repeat)
    \/ \E form \in EventForms, repeat \in EventRepeats : CreateEvent(form, repeat)
    \/ \E ev \in Range(rEvents), form \in EventForms : EditEvent(ev.id, form, ev.alertRepeat)
    \/ \E ev \in Range(rEvents), repeat \in EventRepeats : EditEvent(ev.id, FormOf(ev), repeat)
    \/ \E id \in Ids(rEvents) : DeleteEvent(id)
    \/ ClearAllEvents

Spec ==
    Init /\ [][Next]_vars

----------------------------------------------------------------------------
(* The two setInterval timers.  Time advances in steps of one second; an   *)
(* interval that is due runs its callback before time passes.              *)

StepMs ==
    TaskPeriodMs \div 2

(* Mutant: both components poll with the same period. *)
PeriodSame(kind) ==
    TaskPeriodMs

(* setInterval(..., 2000) in TaskManager, setInterval(..., 10000) in Scheduler *)
Period(kind) ==
    IF kind = "task" THEN TaskPeriodMs ELSE EventPeriodMs

(* App.renderView: the component a view mounts, by the timer it owns *)
KindOf(v) ==
    IF v = "TASKS" THEN "task" ELSE IF v = "SCHEDULER" THEN "event" ELSE "none"

(* Mutant: the effect returns no cleanup. *)
CleanupMissing(live, kind) ==
    live

(* return () => clearInterval(interval) *)
Cleanup(live, kind) ==
    { i \in live : i.kind # kind }

(* One run of the effect: the cleanup of the previous run, then a new      *)
(* interval whose first callback is one period away.                       *)
EffectRun(live, kind, t) ==
    Cleanup(live, kind) \cup { [kind |-> kind, due |-> t + Period(kind)] }

TimerInit ==
    /\ clock = 0
    /\ now = Instant(0)
    /\ view = "DASHBOARD"
    /\ tasks = <<>>
    /\ events = <<>>
    /\ rTasks = <<>>
    /\ rEvents = <<>>
    /\ nextId = 1
    /\ ops = 0
    /\ fired = NoTick
    /\ timer = NoTimer
    /\ parse = NoParse
    /\ series = NoSeries

(* One second passes; no callback is overdue. *)
TimerPass ==
    /\ timer.t < MaxTime * StepMs
    /\ \A i \in timer.live : i.due > timer.t
    /\ timer' = [timer EXCEPT !.t = @ + StepMs]
    /\ UNCHANGED <<schedVars, parse, series>>

(* The user navigates: the component of the old view unmounts (cleanup),   *)
(* the component of the new view mounts and its effect runs.               *)
TimerSetView(v) ==
    /\ v # timer.view
    /\ timer' = [timer EXCEPT
                    !.view = v,
                    !.live = IF KindOf(v) = "none"
                             THEN Cleanup(@, KindOf(timer.view))
                             ELSE EffectRun(Cleanup(@, KindOf(timer.view)), KindOf(v), timer.t),
                    !.restarted = [task |-> TRUE, event |-> TRUE]]
    /\ UNCHANGED <<schedVars, parse, series>>

(* The collection of the mounted component changes (a user edit, a         *)
(* creation, a deletion): the dependency [tasks, setTasks] /               *)
(* [events, setEvents] makes the effect run again.                         *)
TimerCollectionChange ==
    /\ KindOf(timer.view) # "none"
    /\ timer' = [timer EXCEPT
                    !.live = EffectRun(@, KindOf(timer.view), timer.t),
                    !.restarted = [@ EXCEPT ![KindOf(timer.view)] = TRUE]]
    /\ UNCHANGED <<schedVars, parse, series>>

(* An interval is due: its callback runs and the interval stays armed for  *)
(* one period later.  (A callback that alerts changes the collection and   *)
(* re-creates the interval at the same instant, with the same due time.)   *)
TimerFire ==
    /\ \E i \in timer.live :
          /\ i.due = timer.t
          /\ timer' = [timer EXCEPT
                          !.live = (@ \ {i}) \cup {[i EXCEPT !.due = timer.t + Period(i.kind)]},
                          !.last = [@ EXCEPT ![i.kind] = timer.t],
                          !.gap = [@ EXCEPT ![i.kind] = IF timer.last[i.kind] < 0
                                                        THEN @
                                                        ELSE timer.t - timer.last[i.kind]],
                          !.clean = [@ EXCEPT ![i.kind] = ~timer.restarted[i.kind]],
                          !.restarted = [@ EXCEPT ![i.kind] = FALSE]]
    /\ UNCHANGED <<schedVars, parse, series>>

TimerNext ==
    \/ TimerPass
    \/ \E v \in {"DASHBOARD", "TASKS", "SCHEDULER"} : TimerSetView(v)
    \/ TimerCollectionChange
    \/ TimerFire

TimerSpec ==
    TimerInit /\ [][TimerNext]_vars

----------------------------------------------------------------------------
(* The task interval left alone: the Tasks view stays mounted, the user    *)
(* does nothing, and a callback runs every TaskPeriodMs.  Time is kept     *)
(* relative to the present: instead of moving `now` forward by one period, *)
(* every lastAlertedAt moves back by one period.  The filter looks at      *)
(* now - lastAlertedAt only and compares it with 300000 at most, so a      *)
(* stamp older than that is kept at that age.                              *)

(* Largest number of repeating tasks ahead of a task in the list *)
MaxAhead ==
    90

(* How many every_3 tasks precede the 'once' task *)
Aheads ==
    {1, MaxAhead - 1, MaxAhead}

(* A list as a bulk save with "every 3 minutes" leaves it, all due, and    *)
(* one 'once' task added after it                                          *)
Backlog(n) ==
    [k \in 1..(n + 1) |->
        NewTask([pre |-> "", n |-> k], T0 - MinuteMs, IF k <= n THEN "every_3" ELSE "once")]

(* One period later, seen from the new present *)
Aged(ts) ==
    [i \in DOMAIN ts |->
        IF ts[i].lastAlertedAt = Undefined THEN ts[i]
        ELSE [ts[i] EXCEPT !.lastAlertedAt =
                 IF @ - TaskPeriodMs < now - 5 * MinuteMs
                 THEN now - 5 * MinuteMs ELSE @ - TaskPeriodMs]]

(* The callback of the present instant has run. *)
TickDone ==
    \/ fired.kind = "task"
    \/ \E t \in Range(tasks) : t.lastAlertedAt = now

PollInit ==
    /\ clock = 0
    /\ now = Instant(0)
    /\ view = "TASKS"
    /\ \E n \in Aheads : tasks = Backlog(n) /\ rTasks = Backlog(n)
    /\ events = <<>>
    /\ rEvents = <<>>
    /\ nextId = MaxAhead + 2
    /\ ops = 0
    /\ fired = NoTick
    /\ timer = NoTimer
    /\ parse = NoParse
    /\ series = NoSeries

(* setInterval(..., 2000): one callback per period *)
PollTick ==
    /\ ~TickDone
    /\ TaskTick

(* The next callback is one period away. *)
PollPass ==
    /\ TickDone
    /\ Committed
    /\ tasks' = Aged(tasks)
    /\ rTasks' = Aged(tasks)
    /\ fired' = NoTick
    /\ UNCHANGED <<ops, clock, now, view, events, rEvents, nextId, timer, parse, series>>

PollNext ==
    \/ PollTick
    \/ Render
    \/ PollPass

(* The interval keeps calling back, React commits every state update, and  *)
(* time passes.                                                            *)
PollSpec ==
    /\ PollInit
    /\ [][PollNext]_vars
    /\ WF_vars(PollTick)
    /\ WF_vars(Render)
    /\ WF_vars(PollPass)

----------------------------------------------------------------------------
(* parseSmartDate.  A text is a sequence of one-character strings; a date  *)
(* is a day number (day 0 is a Sunday) and a time of day in seconds.       *)

UpperCase ==
    <<"A", "B", "C", "D", "E", "F", "G", "H", "I", "J", "K", "L", "M",
      "N", "O", "P", "Q", "R", "S", "T", "U", "V", "W", "X", "Y", "Z">>

LowerCase ==
    <<"a", "b", "c", "d", "e", "f", "g", "h", "i", "j", "k", "l", "m",
      "n", "o", "p", "q", "r", "s", "t", "u", "v", "w", "x", "y", "z">>

DigitChars ==
    <<"0", "1", "2", "3", "4", "5", "6", "7", "8", "9">>

(* The /i flag: letters compare by their lower case *)
Lower(c) ==
    IF \E i \in DOMAIN UpperCase : UpperCase[i] = c
    THEN LowerCase[CHOOSE i \in DOMAIN UpperCase : UpperCase[i] = c]
    ELSE c

IsLetter(c) ==
    \E i \in DOMAIN LowerCase : LowerCase[i] = Lower(c)

(* \d *)
IsDigit(c) ==
    \E i \in DOMAIN DigitChars : DigitChars[i] = c

DigitValue(c) ==
    (CHOOSE i \in DOMAIN DigitChars : DigitChars[i] = c) - 1

(* \w *)
IsWordChar(c) ==
    IsLetter(c) \/ IsDigit(c) \/ c = "_"

(* \s *)
IsSpace(c) ==
    c \in {" ", "\t"}

CharAt(text, i, P(_)) ==
    i \in DOMAIN text /\ P(text[i])

(* \b between positions i - 1 and i *)
Boundary(text, i) ==
    CharAt(text, i - 1, IsWordChar) # CharAt(text, i, IsWordChar)

(* A literal of the pattern (given in lower case) at position i *)
LitAt(text, i, lit) ==
    /\ i >= 1
    /\ i + Len(lit) - 1 <= Len(text)
    /\ \A k \in DOMAIN lit : Lower(text[i + k - 1]) = lit[k]

(* Length of the run of characters with property P that starts at i *)
RunFrom(text, i, P(_)) ==
    CHOOSE n \in 0..Len(text) :
        /\ \A k \in 0..(n - 1) : CharAt(text, i + k, P)
        /\ ~CharAt(text, i + n, P)

Remove(text, i, n) ==
    SubSeq(text, 1, i - 1) \o SubSeq(text, i + n, Len(text))

(* text.replace(match[0], ''): a string pattern replaces its first         *)
(* occurrence, compared character by character, wherever that is.          *)
ReplaceFirst(text, sub) ==
    LET occurs(j) == SubSeq(text, j, j + Len(sub) - 1) = sub
        places == { j \in 1..(Len(text) - Len(sub) + 1) : occurs(j) }
    IN IF Len(sub) = 0 \/ places = {} THEN text
       ELSE Remove(text, CHOOSE j \in places : \A k \in places : j <= k, Len(sub))

(* String.prototype.match without /g: the leftmost position that matches.  *)
(* LenAt(i) is the length matched at i, or -1.                             *)
Leftmost(text, LenAt(_)) ==
    LET places == { i \in 1..(Len(text) + 1) : LenAt(i) >= 0 }
    IN IF places = {} THEN 0 ELSE CHOOSE i \in places : \A k \in places : i <= k

(* [\.\)] at position i *)
Closes(text, i) ==
    CharAt(text, i, LAMBDA c : c \in {".", ")"})

(* (\d+[\.\)]|\-|\*|[a-z][\.\)]) at the start, `digits` leading digits *)
MarkerLen(text, digits) ==
    IF digits > 0 THEN (IF Closes(text, digits + 1) THEN digits + 1 ELSE 0)
    ELSE IF CharAt(text, 1, LAMBDA c : c \in {"-", "*"}) THEN 1
    ELSE IF CharAt(text, 1, IsLetter) /\ Closes(text, 2) THEN 2
    ELSE 0

(* The marker counts only with white space after it *)
BulletLenAfter(text, marker) ==
    IF marker > 0 /\ RunFrom(text, marker + 1, IsSpace) > 0
    THEN marker + RunFrom(text, marker + 1, IsSpace)
    ELSE 0

(* 1. /^(\d+[\.\)]|\-|\*|[a-z][\.\)])\s+/i *)
BulletLen(text) ==
    BulletLenAfter(text, MarkerLen(text, RunFrom(text, 1, IsDigit)))

StripBullet(text) ==
    Remove(text, 1, BulletLen(text))

(* \bword\b at position i *)
KeywordFits(text, i, word) ==
    /\ Boundary(text, i)
    /\ LitAt(text, i, word)
    /\ Boundary(text, i + Len(word))

(* /\b(w1|w2|...)\b/i: length of the match at i, or -1 *)
KeywordLenAt(text, i, words) ==
    IF \E k \in DOMAIN words : KeywordFits(text, i, words[k])
    THEN Len(words[CHOOSE k \in DOMAIN words :
                     /\ KeywordFits(text, i, words[k])
                     /\ \A j \in 1..(k - 1) : ~KeywordFits(text, i, words[j])])
    ELSE 0 - 1

KeywordMatchAt(text, words, at) ==
    IF at = 0 THEN [at |-> 0, str |-> <<>>]
    ELSE [at |-> at, str |-> SubSeq(text, at, at + KeywordLenAt(text, at, words) - 1)]

(* text.match(/\b(w1|w2|...)\b/i): where and what, at = 0 when null *)
KeywordMatch(text, words) ==
    KeywordMatchAt(text, words, Leftmost(text, LAMBDA i : KeywordLenAt(text, i, words)))

(* ['sun', 'mon', 'tue', 'wed', 'thu', 'fri', 'sat']: index k - 1 *)
DayNames ==
    << <<"s", "u", "n">>, <<"m", "o", "n">>, <<"t", "u", "e">>, <<"w", "e", "d">>,
       <<"t", "h", "u">>, <<"f", "r", "i">>, <<"s", "a", "t">> >>

(* (mon|tue|...) at position j: days.indexOf of it, or -1 *)
DayIndexAt(text, j) ==
    IF \E k \in DOMAIN DayNames : LitAt(text, j, DayNames[k])
    THEN (CHOOSE k \in DOMAIN DayNames : LitAt(text, j, DayNames[k])) - 1
    ELSE 0 - 1

SuffixFits(text, k, suffix) ==
    LitAt(text, k, suffix) /\ Boundary(text, k + Len(suffix))

(* (day|s|es)?\b at position k, in the order the pattern tries them, the   *)
(* empty one last: its length, or -1                                       *)
SuffixLenAt(text, k) ==
    IF SuffixFits(text, k, <<"d", "a", "y">>) THEN 3
    ELSE IF SuffixFits(text, k, <<"s">>) THEN 1
    ELSE IF SuffixFits(text, k, <<"e", "s">>) THEN 2
    ELSE IF Boundary(text, k) THEN 0
    ELSE 0 - 1

(* (mon|tue|...)(day|s|es)?\b at position j: its length, or -1 *)
WeekdayLenAt(text, j) ==
    IF DayIndexAt(text, j) < 0 \/ SuffixLenAt(text, j + 3) < 0 THEN 0 - 1
    ELSE 3 + SuffixLenAt(text, j + 3)

(* (on\s+)? at position i: "on" and the white space after it when a        *)
(* weekday follows them, else nothing                                      *)
OnPrefixLen(text, i, spaces) ==
    IF LitAt(text, i, <<"o", "n">>) /\ spaces > 0
       /\ WeekdayLenAt(text, i + 2 + spaces) >= 0
    THEN 2 + spaces
    ELSE 0

(* Where the weekday name starts in a match at i *)
WeekdayStart(text, i) ==
    i + OnPrefixLen(text, i, RunFrom(text, i + 2, IsSpace))

(* The pattern at position i with the weekday name at j: its length, or -1 *)
DayLenFrom(text, i, j) ==
    IF Boundary(text, i) /\ WeekdayLenAt(text, j) >= 0
    THEN (j - i) + WeekdayLenAt(text, j)
    ELSE 0 - 1

(* /\b(on\s+)?(mon|tue|wed|thu|fri|sat|sun)(day|s|es)?\b/i at position i *)
DayLenAt(text, i) ==
    DayLenFrom(text, i, WeekdayStart(text, i))

DayMatchAt(text, at) ==
    IF at = 0 THEN [at |-> 0, str |-> <<>>, target |-> 0 - 1]
    ELSE [at |-> at,
          str |-> SubSeq(text, at, at + DayLenAt(text, at) - 1),
          target |-> DayIndexAt(text, WeekdayStart(text, at))]

(* text.match of the weekday pattern; target is days.indexOf(dayStr) *)
DayMatch(text) ==
    DayMatchAt(text, Leftmost(text, LAMBDA i : DayLenAt(text, i)))

(* text.match(/last/i) *)
ContainsLast(text) ==
    \E i \in DOMAIN text : LitAt(text, i, <<"l", "a", "s", "t">>)

(* Date.prototype.getDay: 0 is Sunday *)
DayOfWeek(day) ==
    day % 7

(* daysToAdd: target - current, a week later when that is not positive     *)
(* and the text has no "last"                                              *)
DaysToAdd(target, current, last) ==
    IF target - current <= 0 /\ ~last THEN target - current + 7 ELSE target - current

(* (am|pm|a\.m\.|p\.m\.) in the order the pattern tries them *)
Meridians ==
    << <<"a", "m">>, <<"p", "m">>, <<"a", ".", "m", ".">>, <<"p", ".", "m", ".">> >>

NoTime ==
    [len |-> 0 - 1, is24 |-> FALSE, hours |-> 0, minutes |-> 0, meridian |-> "none"]

TwoDigits(text, i) ==
    10 * DigitValue(text[i]) + DigitValue(text[i + 1])

(* parseInt of the nd digits at j *)
NumberAt(text, j, nd) ==
    IF nd = 2 THEN TwoDigits(text, j) ELSE DigitValue(text[j])

(* (?:at\s+)? at position i: "at" and the white space after it when a      *)
(* digit follows them, else nothing                                        *)
AtPrefixLen(text, i, spaces) ==
    IF LitAt(text, i, <<"a", "t">>) /\ spaces > 0
       /\ CharAt(text, i + 2 + spaces, IsDigit)
    THEN 2 + spaces
    ELSE 0

(* Where (\d{1,2}) ends when it starts at j *)
HourEnd(text, j) ==
    IF CharAt(text, j + 1, IsDigit) THEN j + 2 ELSE j + 1

(* Where (?::(\d{2}))? ends after an hour that starts at j *)
MinutesEnd(text, j) ==
    IF /\ CharAt(text, HourEnd(text, j), LAMBDA c : c = ":")
       /\ CharAt(text, HourEnd(text, j) + 1, IsDigit)
       /\ CharAt(text, HourEnd(text, j) + 2, IsDigit)
    THEN HourEnd(text, j) + 3
    ELSE HourEnd(text, j)

(* Where \s* ends after them *)
SpacesEnd(text, j) ==
    MinutesEnd(text, j) + RunFrom(text, MinutesEnd(text, j), IsSpace)

(* (am|pm|a\.m\.|p\.m\.)? at position m: which one, or 0 *)
MeridianAt(text, m) ==
    IF LitAt(text, m, Meridians[1]) THEN 1
    ELSE IF LitAt(text, m, Meridians[2]) THEN 2
    ELSE IF LitAt(text, m, Meridians[3]) THEN 3
    ELSE IF LitAt(text, m, Meridians[4]) THEN 4
    ELSE 0

(* The match of the first alternative at i with the hour at j, ending at   *)
(* position e with meridian mer; the meridian loses its dots and its case  *)
TimeAlt1Groups(text, i, j, e, mer) ==
    [len |-> (e - i) + (IF mer = 0 THEN 0 ELSE Len(Meridians[mer])),
     is24 |-> FALSE,
     hours |-> NumberAt(text, j, HourEnd(text, j) - j),
     minutes |-> IF MinutesEnd(text, j) > HourEnd(text, j)
                 THEN TwoDigits(text, HourEnd(text, j) + 1) ELSE 0,
     meridian |-> IF mer = 0 THEN "none" ELSE IF mer \in {1, 3} THEN "am" ELSE "pm"]

TimeAlt1From(text, i, j) ==
    IF Boundary(text, i) /\ CharAt(text, j, IsDigit)
    THEN TimeAlt1Groups(text, i, j, SpacesEnd(text, j),
                        MeridianAt(text, SpacesEnd(text, j)))
    ELSE NoTime

(* First alternative at position i:                                        *)
(* \b(?:at\s+)?(\d{1,2})(?::(\d{2}))?\s*(am|pm|a\.m\.|p\.m\.)?             *)
TimeAlt1At(text, i) ==
    TimeAlt1From(text, i, i + AtPrefixLen(text, i, RunFrom(text, i + 2, IsSpace)))

(* (\d{1,2}):(\d{2})\b at position i with an hour of nd digits *)
ClockFits(text, i, nd) ==
    /\ \A k \in 0..(nd - 1) : CharAt(text, i + k, IsDigit)
    /\ CharAt(text, i + nd, LAMBDA c : c = ":")
    /\ CharAt(text, i + nd + 1, IsDigit)
    /\ CharAt(text, i + nd + 2, IsDigit)
    /\ Boundary(text, i + nd + 3)

TimeAlt2Groups(text, i, nd) ==
    IF nd = 0 THEN NoTime
    ELSE [len |-> nd + 3,
          is24 |-> TRUE,
          hours |-> NumberAt(text, i, nd),
          minutes |-> TwoDigits(text, i + nd + 1),
          meridian |-> "none"]

(* Second alternative at position i: (\d{1,2}):(\d{2})\b *)
TimeAlt2At(text, i) ==
    TimeAlt2Groups(text, i, IF ClockFits(text, i, 2) THEN 2
                            ELSE IF ClockFits(text, i, 1) THEN 1 ELSE 0)

(* a|b: the first alternative that matches *)
FirstOf(a, b) ==
    IF a.len >= 0 THEN a ELSE b

(* The alternation at position i *)
TimeAt(text, i) ==
    FirstOf(TimeAlt1At(text, i), TimeAlt2At(text, i))

TimeMatchAt(text, at) ==
    IF at = 0 THEN [at |-> 0, str |-> <<>>, groups |-> NoTime]
    ELSE [at |-> at,
          str |-> SubSeq(text, at, at + TimeAt(text, at).len - 1),
          groups |-> TimeAt(text, at)]

(* text.match of the time pattern; at = 0 when null *)
TimeMatch(text) ==
    TimeMatchAt(text, Leftmost(text, LAMBDA i : TimeAt(text, i).len))

(* Mutant: a bare hour below 8 is taken for the afternoon. *)
NormalizeHourBelowEight(hours, meridian) ==
    IF meridian = "pm" /\ hours < 12 THEN hours + 12
    ELSE IF meridian = "am" /\ hours = 12 THEN 0
    ELSE IF meridian = "none" /\ hours < 8 THEN hours + 12
    ELSE hours

(* The three adjustments of the 12-hour branch, one after the other *)
NormalizeHour(hours, meridian) ==
    LET h1 == IF meridian = "pm" /\ hours < 12 THEN hours + 12 ELSE hours
        h2 == IF meridian = "am" /\ h1 = 12 THEN 0 ELSE h1
    IN IF meridian = "none" /\ h2 < 7 THEN h2 + 12 ELSE h2

(* if (timeMatch[4]) { hours = parseInt(timeMatch[4]) } else { ... } *)
HoursOf(groups) ==
    IF groups.is24 THEN groups.hours ELSE NormalizeHour(groups.hours, groups.meridian)

SecondsPerDay ==
    24 * 60 * 60

(* Mutant: the result starts at midnight of the base date. *)
StartDateAtMidnight(base) ==
    [base EXCEPT !.sec = 0]

(* Mutant: the result is the caller's Date object itself. *)
BaseDateAliased(base, finalDate) ==
    finalDate

(* new Date(baseDate) is a copy: the caller's Date, after the parser has   *)
(* worked on finalDate, is what it was.                                    *)
BaseDateAfter(base, finalDate) ==
    base

(* let finalDate = new Date(baseDate) *)
StartDate(base) ==
    base

(* Mutant: the date is replaced by d, time of day included. *)
SetFullYearWhole(date, d) ==
    d

(* finalDate.setFullYear(d.getFullYear(), d.getMonth(), d.getDate()) *)
SetFullYear(date, d) ==
    [date EXCEPT !.day = d.day]

(* d.setDate(d.getDate() + n) *)
AddDays(d, n) ==
    [d EXCEPT !.day = @ + n]

(* finalDate.setHours(hours, minutes, 0, 0): minutes of 60 and more carry  *)
(* into the hour and the day.                                              *)
SetHours(date, hours, minutes) ==
    [day |-> date.day + ((hours * 3600 + minutes * 60) \div SecondsPerDay),
     sec |-> (hours * 3600 + minutes * 60) % SecondsPerDay]

RECURSIVE CollapseSpaces(_)
(* text.replace(/\s+/g, ' ') *)
CollapseSpaces(text) ==
    IF text = <<>> THEN <<>>
    ELSE IF IsSpace(text[1])
         THEN <<" ">> \o CollapseSpaces(SubSeq(text, RunFrom(text, 1, IsSpace) + 1, Len(text)))
         ELSE <<text[1]>> \o CollapseSpaces(Tail(text))

(* Length of the run of white space that ends the text *)
TrailingSpaces(text) ==
    CHOOSE n \in 0..Len(text) :
        /\ \A k \in 0..(n - 1) : CharAt(text, Len(text) - k, IsSpace)
        /\ ~CharAt(text, Len(text) - n, IsSpace)

(* String.prototype.trim *)
Trim(text) ==
    IF RunFrom(text, 1, IsSpace) = Len(text) THEN <<>>
    ELSE SubSeq(text, RunFrom(text, 1, IsSpace) + 1, Len(text) - TrailingSpaces(text))

(* Mutant: the first character goes whatever it is. *)
StripLeadingChar(text) ==
    Remove(text, 1, 1 + RunFrom(text, 2, IsSpace))

(* .replace(/^[-*,.]\s*/, '') *)
StripLeadingPunct(text) ==
    IF CharAt(text, 1, LAMBDA c : c \in {"-", "*", ",", "."})
    THEN Remove(text, 1, 1 + RunFrom(text, 2, IsSpace))
    ELSE text

(* text.replace(/\s+/g, ' ').trim().replace(/^[-*,.]\s*/, '') *)
CleanTitle(text) ==
    StripLeadingPunct(Trim(CollapseSpaces(text)))

(* Mutant: an empty title stays empty. *)
TitleOfNoFallback(clean, input) ==
    clean

(* title: cleanTitle || input *)
TitleOf(clean, input) ==
    IF clean = <<>> THEN input ELSE clean

(* (tomorrow|tmrw) and (today) *)
TomorrowWords ==
    << <<"t", "o", "m", "o", "r", "r", "o", "w">>,
       <<"t", "m", "r", "w">> >>

TodayWords ==
    << <<"t", "o", "d", "a", "y">> >>

(* Mutant: the today pass is skipped once the tomorrow pass has matched. *)
TodayMatchUnlessTomorrow(text, tomorrowMatched) ==
    IF tomorrowMatched THEN [at |-> 0, str |-> <<>>] ELSE KeywordMatch(text, TodayWords)

(* const todayMatch = text.match(/\b(today)\b/i): looked for whatever the    *)
(* tomorrow pass found                                                     *)
TodayMatch(text, tomorrowMatched) ==
    KeywordMatch(text, TodayWords)

(* The locals of parseSmartDate after 1., text = text.replace(bullet, '') *)
Locals(input, base) ==
    [text |-> StripBullet(input), date |-> StartDate(base),
     hasDate |-> FALSE, hasTime |-> FALSE]

(* if (match) { finalDate.setFullYear(...); hasDate = true;                *)
(*              text = text.replace(match[0], '') }                        *)
DatePass(s, match, d) ==
    IF match.at > 0
    THEN [s EXCEPT !.text = ReplaceFirst(@, match.str),
                   !.date = SetFullYear(@, d),
                   !.hasDate = TRUE]
    ELSE s

(* 2. tomorrow, tmrw *)
TomorrowPass(s, today) ==
    DatePass(s, KeywordMatch(s.text, TomorrowWords), AddDays(today, 1))

(* 3. today: hasDate is set at this point when the tomorrow pass matched *)
TodayPass(s, today) ==
    DatePass(s, TodayMatch(s.text, s.hasDate), today)

WeekdayPassWith(s, today, match) ==
    DatePass(s, match,
             AddDays(today, DaysToAdd(match.target, DayOfWeek(today.day),
                                      ContainsLast(s.text))))

(* 4. weekday names *)
WeekdayPass(s, today) ==
    WeekdayPassWith(s, today, DayMatch(s.text))

(* if (hours >= 0 && hours < 24) { setHours; hasTime = true }              *)
(* text = text.replace(timeMatch[0], '')                                   *)
TimePassWith(s, match) ==
    IF match.at > 0
    THEN [s EXCEPT !.text = ReplaceFirst(@, match.str),
                   !.date = IF HoursOf(match.groups) \in 0..23
                            THEN SetHours(@, HoursOf(match.groups), match.groups.minutes)
                            ELSE @,
                   !.hasTime = (HoursOf(match.groups) \in 0..23)]
    ELSE s

(* 5. time *)
TimePass(s) ==
    TimePassWith(s, TimeMatch(s.text))

(* 6. title, and the value returned *)
Result(s, input) ==
    [title |-> TitleOf(CleanTitle(s.text), input),
     date |-> s.date,
     hasTime |-> s.hasTime,
     hasDate |-> s.hasDate]

(* parseSmartDate(input, baseDate) called when `new Date()` is `today` *)
ParseSmartDate(input, base, today) ==
    Result(TimePass(WeekdayPass(TodayPass(TomorrowPass(Locals(input, base), today),
                                          today), today)),
           input)

(* Lines a user types into the bulk list, trimmed and not empty *)
Lines ==
    { <<"B", "u", "y", " ", "m", "i", "l", "k">>,
      <<"G", "r", "a", "d", "e", " ", "p", "a", "p", "e", "r", "s", ",", " ",
        "t", "h", "e", "n", " ", "l", "u", "n", "c", "h">>,
      <<"T", "o", "m", "o", "r", "r", "o", "w", " ", "5", "p", "m">>,
      <<"C", "a", "l", "l", " ", "m", "o", "m", " ", "t", "o", "m", "o", "r",
        "r", "o", "w">>,
      <<"t", "m", "r", "w", " ", "q", "u", "i", "z">>,
      <<"Q", "u", "i", "z", " ", "t", "o", "d", "a", "y">>,
      <<"E", "s", "s", "a", "y", " ", "t", "o", "m", "o", "r", "r", "o", "w",
        " ", "n", "o", "t", " ", "t", "o", "d", "a", "y">>,
      <<"t", "o", "d", "a", "y", " ", "a", "n", "d", " ", "t", "o", "m", "o",
        "r", "r", "o", "w">>,
      <<"o", "n", " ", "F", "r", "i">>,
      <<"T", "u", "e", "s">>,
      <<"n", "e", "x", "t", " ", "F", "r", "i", "d", "a", "y">>,
      <<"l", "a", "s", "t", " ", "M", "o", "n", "d", "a", "y">>,
      <<"l", "e", "m", "o", "n", " ", "m", "o", "n">>,
      <<"1", "7", ":", "0", "0", " ", "s", "t", "a", "n", "d", "u", "p">>,
      <<"R", "o", "o", "m", "_", "0", "6", ":", "3", "0">>,
      <<"R", "e", "a", "d", " ", "a", "t", " ", "9">>,
      <<"a", "t", " ", "2">>,
      <<"B", "u", "y", " ", "3", " ", "a", "p", "p", "l", "e", "s">>,
      <<"5", ":", "7", "5", "p", "m">>,
      <<"L", "a", "b", " ", "1", "1", ":", "4", "5", " ", "p", ".", "m", ".">>,
      <<"1", ".", " ", "a", ")", " ", "B", "u", "y", " ", "m", "i", "l", "k">>,
      <<"-", " ", "B", "u", "y", " ", "m", "i", "l", "k">>,
      <<"a", ")", " ", "B", "u", "y", " ", "m", "i", "l", "k">>,
      <<"-", "-", "x">>,
      <<"*", " ", ",", " ", "x">>,
      <<"-">>,
      <<"7", ")", " ", "S", "a", "t", " ", "a", "t", " ", "1", "2", "a", "m">> }

(* The seven weekdays by their full names, Sunday first *)
WeekdayLines ==
    << <<"S", "u", "n", "d", "a", "y">>,
       <<"M", "o", "n", "d", "a", "y">>,
       <<"T", "u", "e", "s", "d", "a", "y">>,
       <<"W", "e", "d", "n", "e", "s", "d", "a", "y">>,
       <<"T", "h", "u", "r", "s", "d", "a", "y">>,
       <<"F", "r", "i", "d", "a", "y">>,
       <<"S", "a", "t", "u", "r", "d", "a", "y">> >>

(* Lines that are a 24-hour HH:MM time *)
ClockLines ==
    { <<"0", "6", ":", "3", "0">>,
      <<"0", "0", ":", "1", "5">>,
      <<"1", "7", ":", "0", "0">>,
      <<"9", ":", "0", "5">>,
      <<"2", "3", ":", "5", "9">> }

(* "Tomorrow 5pm" *)
TomorrowFivePm ==
    <<"T", "o", "m", "o", "r", "r", "o", "w", " ", "5", "p", "m">>

----------------------------------------------------------------------------
(* Calls of parseSmartDate: one call, the same call repeated later, and a  *)
(* second parse of the title the first one returned.                       *)

(* The base date handed in by the form: a day with a time of day that has  *)
(* seconds (09:41:27)                                                      *)
BaseDate ==
    [day |-> 712, sec |-> 9 * 3600 + 41 * 60 + 27]

(* `new Date()` at the call: each weekday once, at 10:00:00; day 700 is a  *)
(* Sunday                                                                  *)
Todays ==
    { [day |-> 700 + k, sec |-> 10 * 3600] : k \in 0..6 }

(* A Friday, 10:00:00 *)
Friday ==
    [day |-> 705, sec |-> 10 * 3600]

(* How much later the call is repeated: an hour, a day *)
Delays ==
    { [day |-> 0, sec |-> 3600], [day |-> 1, sec |-> 0] }

HourDigits(h) ==
    IF h < 10 THEN <<DigitChars[h + 1]>>
    ELSE <<DigitChars[(h \div 10) + 1], DigitChars[(h % 10) + 1]>>

MeridianText(m) ==
    IF m = "am" THEN <<"a", "m">> ELSE IF m = "pm" THEN <<"p", "m">> ELSE <<>>

(* "at 9", "at 9am", "at 21pm", ... *)
HourLine(h, m) ==
    <<"a", "t", " ">> \o HourDigits(h) \o MeridianText(m)

MeridianKinds ==
    {"none", "am", "pm"}

HourLines ==
    { HourLine(h, m) : h \in 0..99, m \in MeridianKinds }

NotRun ==
    [done |-> FALSE]

Returned(r) ==
    [done |-> TRUE, title |-> r.title, date |-> r.date,
     hasTime |-> r.hasTime, hasDate |-> r.hasDate]

(* A call that has not been made yet *)
Call(x, d) ==
    [text |-> x, base |-> BaseDate, today |-> d, out |-> NotRun,
     again |-> NotRun, later |-> NotRun, laterAt |-> d]

(* The weekday names on every day of the week, the other lines on a Friday *)
ParseCalls ==
    { Call(x, d) : x \in Range(WeekdayLines), d \in Todays }
        \cup { Call(x, Friday) : x \in Lines \cup ClockLines \cup HourLines }

ParseInit ==
    /\ clock = 0
    /\ now = Instant(0)
    /\ view = "DASHBOARD"
    /\ tasks = <<>>
    /\ events = <<>>
    /\ rTasks = <<>>
    /\ rEvents = <<>>
    /\ nextId = 1
    /\ ops = 0
    /\ fired = NoTick
    /\ timer = NoTimer
    /\ parse \in ParseCalls
    /\ series = NoSeries

(* parseSmartDate(text, base) is called *)
ParseCall ==
    /\ ~parse.out.done
    /\ parse' = [parse EXCEPT !.out = Returned(ParseSmartDate(parse.text, parse.base, parse.today))]
    /\ UNCHANGED <<schedVars, timer, series>>

(* The title that came back is parsed again *)
ParseAgain ==
    /\ parse.out.done
    /\ ~parse.again.done
    /\ ~parse.later.done
    /\ parse' = [parse EXCEPT
                    !.again = Returned(ParseSmartDate(parse.out.title, parse.base, parse.today))]
    /\ UNCHANGED <<schedVars, timer, series>>

(* The same call is made again after some time *)
ParseLater(delay) ==
    /\ parse.out.done
    /\ ~parse.later.done
    /\ ~parse.again.done
    /\ LET at == [day |-> parse.today.day + delay.day, sec |-> parse.today.sec + delay.sec]
       IN parse' = [parse EXCEPT
                       !.laterAt = at,
                       !.later = Returned(ParseSmartDate(parse.text, parse.base, at))]
    /\ UNCHANGED <<schedVars, timer, series>>

ParseNext ==
    \/ ParseCall
    \/ ParseAgain
    \/ \E delay \in Delays : ParseLater(delay)

ParseSpec ==
    ParseInit /\ [][ParseNext]_vars

----------------------------------------------------------------------------
(* Bulk entry: handleSave of TaskManager and of Scheduler with the bulk    *)
(* list open.  One Date is built from the form and handed to parseSmartDate *)
(* for every line of the list in turn.                                     *)

(* Longest bulk list followed *)
MaxBatch ==
    3

(* What the user types on one line of the list *)
BulkLines ==
    { TomorrowFivePm,
      <<"B", "u", "y", " ", "m", "i", "l", "k">>,
      <<"R", "e", "a", "d", " ", "a", "t", " ", "9">>,
      <<"n", "e", "x", "t", " ", "F", "r", "i", "d", "a", "y">> }

(* bulkText.split('\n').map(l => l.trim()).filter(l => l.length > 0) *)
Batches ==
    UNION { [1..n -> BulkLines] : n \in 1..MaxBatch }

(* Date.getTime(), counted from 00:00 of day 700 *)
Ms(d) ==
    ((d.day - 700) * SecondsPerDay + d.sec) * 1000

(* id: Date.now().toString() + '-' + idx *)
BulkId(k) ==
    [pre |-> "", n |-> <<nextId, k - 1>>]

BulkInit ==
    /\ clock = 0
    /\ now = Instant(0)
    /\ view \in {"TASKS", "SCHEDULER"}
    /\ tasks = <<>>
    /\ events = <<>>
    /\ rTasks = <<>>
    /\ rEvents = <<>>
    /\ nextId = 1
    /\ ops = 0
    /\ fired = NoTick
    /\ timer = NoTimer
    /\ parse \in { [lines |-> b, form |-> BaseDate, base |-> BaseDate, today |-> Friday,
                    made |-> <<>>, saved |-> FALSE] : b \in Batches }
    /\ series = NoSeries

(* lines.map / lines.forEach, one iteration: the next line is parsed with  *)
(* the Date the earlier calls have left.                                   *)
BulkLine ==
    /\ ~parse.saved
    /\ Len(parse.made) < Len(parse.lines)
    /\ \E r \in { ParseSmartDate(parse.lines[Len(parse.made) + 1], parse.base, parse.today) } :
          parse' = [parse EXCEPT !.made = Append(@, Returned(r)),
                                 !.base = BaseDateAfter(@, r.date)]
    /\ UNCHANGED <<schedVars, timer, series>>

(* TaskManager.handleSave, "Bulk Create Logic", after the last line: the   *)
(* records are built and appended, each one is handed to onAddToSchedule.  *)
TaskBulkSave ==
    /\ view = "TASKS"
    /\ ~parse.saved
    /\ Len(parse.made) = Len(parse.lines)
    /\ \E newTasks \in { [k \in DOMAIN parse.made |->
                            NewTask(BulkId(k), Ms(parse.made[k].date), "once")] } :
          /\ tasks' = tasks \o newTasks
          /\ events' = events \o [k \in DOMAIN newTasks |-> TaskToEvent(newTasks[k])]
    /\ parse' = [parse EXCEPT !.saved = TRUE]
    /\ nextId' = nextId + 1
    /\ UNCHANGED <<clock, now, view, rTasks, rEvents, ops, fired, timer, series>>

(* Scheduler.handleSave, bulk mode, after the last line, with onAddToTask; *)
(* the slot of the form is one hour long.                                  *)
EventBulkSave ==
    /\ view = "SCHEDULER"
    /\ ~parse.saved
    /\ Len(parse.made) = Len(parse.lines)
    /\ \E newEvents \in { [k \in DOMAIN parse.made |->
                             NewEvent(BulkId(k),
                                      [start |-> Ms(parse.made[k].date),
                                       end |-> Ms(parse.made[k].date) + HourMs,
                                       alertOffset |-> 0],
                                      "once", "chime", TRUE, FALSE)] } :
          /\ events' = events \o newEvents
          /\ tasks' = tasks \o [k \in DOMAIN newEvents |-> EventToTask(newEvents[k])]
    /\ parse' = [parse EXCEPT !.saved = TRUE]
    /\ nextId' = nextId + 1
    /\ UNCHANGED <<clock, now, view, rTasks, rEvents, ops, fired, timer, series>>

BulkNext ==
    \/ BulkLine
    \/ TaskBulkSave
    \/ EventBulkSave

BulkSpec ==
    BulkInit /\ [][BulkNext]_vars

----------------------------------------------------------------------------
(* Scheduler.handleSave with a recurrence rule: the series is generated by *)
(* a loop, one instance per iteration, and then written to the state.  A   *)
(* date is a year, a month (0 to 11), a day of the month and the time of   *)
(* day of the form.                                                        *)

MaxInstances ==
    365

RecurrenceRules ==
    {"daily", "weekly", "monthly"}

(* Days of month m of year y *)
DaysIn(y, m) ==
    IF m = 1
    THEN IF (y % 4 = 0 /\ y % 100 # 0) \/ y % 400 = 0 THEN 29 ELSE 28
    ELSE IF m \in {3, 5, 8, 10} THEN 30 ELSE 31

(* Date keeps its fields in range: a month past December moves to the next *)
(* year, a day past the end of the month moves to the next month.          *)
NormalizeMonth(dt) ==
    IF dt.m > 11 THEN [dt EXCEPT !.y = @ + 1, !.m = @ - 12] ELSE dt

NormalizeDay(dt) ==
    IF dt.d > DaysIn(dt.y, dt.m)
    THEN NormalizeMonth([dt EXCEPT !.m = @ + 1, !.d = @ - DaysIn(dt.y, dt.m)])
    ELSE dt

(* date.setDate(date.getDate() + n) *)
SetDate(dt, n) ==
    NormalizeDay([dt EXCEPT !.d = @ + n])

(* date.setMonth(date.getMonth() + n) *)
SetMonth(dt, n) ==
    NormalizeDay(NormalizeMonth([dt EXCEPT !.m = @ + n]))

(* The if / else if chain that advances currentStart and currentEnd *)
Advanced(rule, dt) ==
    IF rule = "daily" THEN SetDate(dt, 1)
    ELSE IF rule = "weekly" THEN SetDate(dt, 7)
    ELSE IF rule = "monthly" THEN SetMonth(dt, 1)
    ELSE dt

(* currentStart <= endDate, endDate being 23:59:59.999 of its day *)
NotAfter(dt, endDate) ==
    \/ dt.y < endDate.y
    \/ dt.y = endDate.y /\ dt.m < endDate.m
    \/ dt.y = endDate.y /\ dt.m = endDate.m /\ dt.d <= endDate.d

(* Mutant: the loop has no limit on the number of instances. *)
LoopContinuesUncapped(dt, endDate, count) ==
    NotAfter(dt, endDate)

(* while (currentStart <= endDate && count < 365) *)
LoopContinues(dt, endDate, count) ==
    NotAfter(dt, endDate) /\ count < MaxInstances

(* The form: 31 January 2025, 09:00 to 10:00 *)
FormStart ==
    [y |-> 2025, m |-> 0, d |-> 31, hm |-> 900]

FormEnd ==
    [y |-> 2025, m |-> 0, d |-> 31, hm |-> 1000]

(* recurrenceEndDate: the day before the start, six weeks, a good year and *)
(* thirty-one years after it                                               *)
RecurrenceEndDates ==
    { [y |-> 2025, m |-> 0, d |-> 30], [y |-> 2025, m |-> 2, d |-> 15],
      [y |-> 2026, m |-> 2, d |-> 15], [y |-> 2056, m |-> 0, d |-> 1] }

(* The event the edit modal was opened for *)
Edited ==
    [NewEvent([pre |-> "", n |-> 0], [start |-> FormStart, end |-> FormEnd, alertOffset |-> 15],
              "once", "chime", TRUE, FALSE)
        EXCEPT !.hasAlerted = TRUE, !.lastAlertedAt = T0]

(* id: Date.now().toString() + '-' + idx + '-' + count + '-' + random *)
SeriesId(count) ==
    [pre |-> "", n |-> <<nextId, count>>]

SeriesInit ==
    /\ clock = 0
    /\ now = Instant(0)
    /\ view = "SCHEDULER"
    /\ tasks = <<>>
    /\ rTasks = <<>>
    /\ nextId = 1
    /\ ops = 0
    /\ fired = NoTick
    /\ timer = NoTimer
    /\ parse = NoParse
    /\ \E rule \in RecurrenceRules, endDate \in RecurrenceEndDates, editing \in BOOLEAN :
          /\ editing => endDate.y < 2026
          /\ events = IF editing THEN <<Edited>> ELSE <<>>
          /\ rEvents = events
          /\ series = [pc |-> "loop", rule |-> rule, endDate |-> endDate, editing |-> editing,
                       currentStart |-> FormStart, currentEnd |-> FormEnd,
                       count |-> 0, all |-> <<>>]

(* One evaluation of the loop condition and, when it holds, one iteration *)
SeriesLoop ==
    /\ series.pc = "loop"
    /\ series' =
          IF LoopContinues(series.currentStart, series.endDate, series.count)
          THEN [series EXCEPT
                   !.all = Append(@, NewEvent(SeriesId(series.count),
                                              [start |-> series.currentStart,
                                               end |-> series.currentEnd,
                                               alertOffset |-> 15],
                                              "once", "chime", TRUE, FALSE)),
                   !.currentStart = Advanced(series.rule, @),
                   !.currentEnd = Advanced(series.rule, @),
                   !.count = @ + 1]
          ELSE [series EXCEPT !.pc = "generated"]
    /\ UNCHANGED <<schedVars, timer, parse>>

(* "3. Update State": in edit mode the series replaces the edited event;   *)
(* in create mode it is appended and every instance goes to onAddToTask.   *)
SeriesSave ==
    /\ series.pc = "generated"
    /\ series' = [series EXCEPT !.pc = "saved"]
    /\ events' = IF series.editing
                 THEN SelectSeq(events, LAMBDA ev : ev.id # Edited.id) \o series.all
                 ELSE events \o series.all
    /\ tasks' = IF series.editing
                THEN tasks
                ELSE tasks \o [k \in DOMAIN series.all |-> EventToTask(series.all[k])]
    /\ nextId' = nextId + 1
    /\ UNCHANGED <<clock, now, view, rTasks, rEvents, ops, fired, timer, parse>>

SeriesNext ==
    \/ SeriesLoop
    \/ SeriesSave

(* A handler that has started runs to its end. *)
SeriesSpec ==
    /\ SeriesInit
    /\ [][SeriesNext]_vars
    /\ WF_vars(SeriesNext)

----------------------------------------------------------------------------
(* Properties.  After an interval callback, `fired` holds what it found    *)
(* eligible and what it alerted, rTasks / rEvents still hold the copy it   *)
(* evaluated, and fired.at is the `now` it captured.                       *)

NoStamp(x) ==
    x.lastAlertedAt = Undefined

Imported(x) ==
    x.id.pre \in {"evt", "task"}

TaskTickStep ==
    fired' # fired /\ fired'.kind = "task"

EventTickStep ==
    fired' # fired /\ fired'.kind = "event"

(* C1: a 'once' Task that is due, not completed and not yet alerted is     *)
(* eligible in the task tick; the tick that fires it sets hasAlerted; no   *)
(* tick ever clears hasAlerted; and a 'once' Task whose record says        *)
(* hasAlerted is in the eligible set of no tick, whatever the clock reads. *)
C1_OneShotFiresOnce ==
    [][ TaskTickStep =>
          /\ \A t \in Range(rTasks) :
                (t.alertRepeat = "once" /\ ~t.completed /\ t.dueDate <= now)
                    => (t.id \in fired'.eligible <=> ~t.hasAlerted)
          /\ \A t \in Range(rTasks) :
                (t.alertRepeat = "once" /\ t.hasAlerted) => t.id \notin fired'.eligible
          /\ Len(tasks') = Len(tasks)
          /\ \A i \in DOMAIN tasks :
                /\ tasks[i].hasAlerted => tasks'[i].hasAlerted
                /\ tasks'[i].id \in fired'.ids => tasks'[i].hasAlerted
      ]_vars

(* A later tick evaluates a due, uncompleted 'once' Task that an earlier   *)
(* tick fired, and does not find it eligible.                              *)
C1_Witness ==
    /\ fired.kind = "task"
    /\ \E t \in Range(rTasks) :
          /\ t.alertRepeat = "once" /\ ~t.completed /\ t.dueDate <= fired.at
          /\ t.hasAlerted /\ ~NoStamp(t) /\ t.lastAlertedAt < fired.at
          /\ t.id \notin fired.eligible

(* C2: a Task that is completed in the collection a task tick evaluates is *)
(* neither eligible nor fired in that tick, whatever its other fields.     *)
C2_CompletedNeverEligible ==
    fired.kind = "task" =>
        \A t \in Range(rTasks) :
            t.completed => (t.id \notin fired.eligible /\ t.id \notin fired.ids)

(* A tick evaluated a completed Task that is due and has never alerted.    *)
C2_Witness ==
    /\ fired.kind = "task"
    /\ \E t \in Range(rTasks) :
          t.completed /\ t.dueDate <= fired.at /\ ~t.hasAlerted

(* C3: a repeating Task with lastAlertedAt = T is not eligible at a tick   *)
(* with now < T + interval, and is eligible at a tick with                 *)
(* now >= T + interval when it is due and not completed; the interval is   *)
(* 180000 ms for every_3 and 300000 ms for every_5.                        *)
C3_RepeatInterval ==
    fired.kind = "task" =>
        \A t \in Range(rTasks) :
            (t.alertRepeat \in {"every_3", "every_5"} /\ t.hasAlerted /\ ~NoStamp(t)) =>
                LET interval == IF t.alertRepeat = "every_3" THEN 180000 ELSE 300000
                IN /\ fired.at < t.lastAlertedAt + interval => t.id \notin fired.eligible
                   /\ (fired.at >= t.lastAlertedAt + interval /\ ~t.completed
                         /\ t.dueDate <= fired.at) => t.id \in fired.eligible

(* An every_3 Task is fired again exactly 180000 ms after its last alert.  *)
C3_Witness ==
    /\ fired.kind = "task"
    /\ \E t \in Range(rTasks) :
          /\ t.alertRepeat = "every_3" /\ t.hasAlerted /\ ~NoStamp(t)
          /\ fired.at = t.lastAlertedAt + 180000
          /\ t.id \in fired.ids

(* C4: a CalendarEvent is eligible in an event tick only when              *)
(* now >= start - alertOffset * 60000 and now - end < 7200000.             *)
C4_EventWindow ==
    fired.kind = "event" =>
        \A ev \in Range(rEvents) :
            ev.id \in fired.eligible =>
                /\ fired.at >= ev.start - ev.alertOffset * 60000
                /\ fired.at - ev.end < 7200000

(* A tick evaluated a repeating event that never alerted and whose end is  *)
(* two hours or more in the past, and did not find it eligible.            *)
C4_Witness ==
    /\ fired.kind = "event"
    /\ \E ev \in Range(rEvents) :
          /\ ~ev.hasAlerted /\ ev.alertRepeat # "once"
          /\ fired.at >= ev.start - ev.alertOffset * 60000
          /\ fired.at - ev.end >= 7200000
          /\ ev.id \notin fired.eligible

(* C5: a record created by cross-import (id 'evt-...' in the events,       *)
(* 'task-...' in the tasks) is in the eligible set of no tick.             *)
C5_ImportNeverEligible ==
    /\ fired.kind = "event" => \A id \in fired.eligible : id.pre # "evt"
    /\ fired.kind = "task" => \A id \in fired.eligible : id.pre # "task"

(* C6: a task tick fires at most one Task, the first eligible one of the   *)
(* collection it evaluates, and leaves every other Task unchanged.         *)
C6_OneTaskPerTick ==
    [][ TaskTickStep =>
          LET toAlert == SelectSeq(rTasks, LAMBDA t : TaskEligible(t, now))
          IN /\ Cardinality(fired'.ids) <= 1
             /\ Len(toAlert) > 0 => fired'.ids = {toAlert[1].id}
             /\ Len(tasks') = Len(tasks)
             /\ \A i \in DOMAIN tasks :
                   tasks[i].id \notin fired'.ids => tasks'[i] = tasks[i]
      ]_vars

(* A tick found two Tasks eligible and left the second one untouched.      *)
C6_Witness ==
    /\ fired.kind = "task"
    /\ Cardinality(fired.eligible) >= 2
    /\ \E t \in Range(tasks) :
          t.id \in fired.eligible /\ t.id \notin fired.ids /\ ~t.hasAlerted

(* C7: an event tick fires every eligible CalendarEvent of the collection  *)
(* it evaluates, and each fired event ends the tick with hasAlerted = true *)
(* and lastAlertedAt = the `now` the tick captured.                        *)
C7_AllEventsFire ==
    [][ EventTickStep =>
          /\ fired'.ids = { ev.id : ev \in { e \in Range(rEvents) : EventEligible(e, now) } }
          /\ fired'.at = now
          /\ \A i \in DOMAIN events' :
                events'[i].id \in fired'.ids =>
                    events'[i].hasAlerted /\ events'[i].lastAlertedAt = now
      ]_vars

(* A tick fired two events, which carry the same lastAlertedAt.            *)
C7_Witness ==
    /\ fired.kind = "event"
    /\ Cardinality(fired.ids) >= 2
    /\ Len(events) >= 2
    /\ \A ev \in Range(events) :
          ev.id \in fired.ids /\ ev.hasAlerted /\ ev.lastAlertedAt = fired.at

(* C8: a tick changes only the fired entities of the current collection,   *)
(* and of those only hasAlerted and lastAlertedAt: nothing is added,       *)
(* removed or overwritten with values of the copy the tick evaluated.      *)
C8_TickUpdatesOnlyFired ==
    [][ /\ TaskTickStep =>
            /\ events' = events
            /\ Len(tasks') = Len(tasks)
            /\ \A i \in DOMAIN tasks :
                  \/ tasks'[i] = tasks[i]
                  \/ /\ tasks[i].id \in fired'.ids
                     /\ tasks'[i] = [tasks[i] EXCEPT !.hasAlerted = TRUE,
                                                     !.lastAlertedAt = now]
        /\ EventTickStep =>
            /\ tasks' = tasks
            /\ Len(events') = Len(events)
            /\ \A i \in DOMAIN events :
                  \/ events'[i] = events[i]
                  \/ /\ events[i].id \in fired'.ids
                     /\ events'[i] = [events[i] EXCEPT !.hasAlerted = TRUE,
                                                       !.lastAlertedAt = now]
      ]_vars

(* The user completed a Task after the render the tick's copy comes from;  *)
(* the tick fired it and the completion is still there.                    *)
C8_Witness ==
    /\ fired.kind = "task"
    /\ \E i \in DOMAIN tasks : \E t \in Range(rTasks) :
          /\ t.id = tasks[i].id /\ t.id \in fired.ids
          /\ ~t.completed /\ tasks[i].completed
          /\ tasks[i].hasAlerted /\ tasks[i].lastAlertedAt = fired.at

C10_StampMonotone ==
    [][ /\ TaskTickStep =>
            \A i \in DOMAIN tasks' : \A t \in Range(tasks) \cup Range(rTasks) :
                (tasks'[i].id \in fired'.ids /\ t.id = tasks'[i].id /\ ~NoStamp(t))
                    => tasks'[i].lastAlertedAt >= t.lastAlertedAt
        /\ EventTickStep =>
            \A i \in DOMAIN events' : \A ev \in Range(events) \cup Range(rEvents) :
                (events'[i].id \in fired'.ids /\ ev.id = events'[i].id /\ ~NoStamp(ev))
                    => events'[i].lastAlertedAt >= ev.lastAlertedAt
      ]_vars

(* A repeating Task was fired a second time, at a later instant.           *)
C10_Witness ==
    /\ fired.kind = "task"
    /\ \E i \in DOMAIN tasks : \E t \in Range(rTasks) :
          /\ t.id = tasks[i].id /\ t.id \in fired.ids
          /\ ~NoStamp(t) /\ t.lastAlertedAt < fired.at
          /\ tasks[i].lastAlertedAt = fired.at

(* C11: a playback failure for a fired entity does not abort the tick: the *)
(* notification of every fired entity is raised, those after the failing   *)
(* one included, and every fired entity of the collection ends the tick    *)
(* with hasAlerted = true and lastAlertedAt = the tick's now.              *)
C11_AudioFailureSwallowed ==
    [][ /\ (TaskTickStep /\ fired'.rejected # {}) =>
            /\ fired'.ids = Ids(TasksToFire(TasksToAlert(rTasks, now)))
            /\ fired'.notified = fired'.ids
            /\ \A t \in Range(tasks') :
                  t.id \in fired'.ids => t.hasAlerted /\ t.lastAlertedAt = now
        /\ (EventTickStep /\ fired'.rejected # {}) =>
            /\ fired'.ids = Ids(EventsToFire(EventsToAlert(rEvents, now)))
            /\ fired'.notified = fired'.ids
            /\ \A ev \in Range(events') :
                  ev.id \in fired'.ids => ev.hasAlerted /\ ev.lastAlertedAt = now
      ]_vars

(* An event tick fired two events; the playback of the first one failed,   *)
(* the second was played, both were notified and both were updated.        *)
C11_Witness ==
    /\ fired.kind = "event"
    /\ Len(rEvents) >= 2
    /\ rEvents[1].id \in fired.rejected
    /\ rEvents[2].id \in fired.ids \ fired.rejected
    /\ fired.notified = fired.ids
    /\ \A ev \in Range(events) :
          ev.id \in fired.ids => ev.hasAlerted /\ ev.lastAlertedAt = fired.at

----------------------------------------------------------------------------
(* Properties of parseSmartDate.                                           *)

(* None of the four passes finds anything in the text *)
NoDateTimeWords(text) ==
    /\ KeywordMatch(text, TomorrowWords).at = 0
    /\ KeywordMatch(text, TodayWords).at = 0
    /\ DayMatch(text).at = 0
    /\ TimeMatch(text).at = 0

(* The text has the word somewhere, in either case *)
Contains(text, lit) ==
    \E i \in DOMAIN text : LitAt(text, i, lit)

(* C13: when no pass matches the line (tomorrow, today, weekday, time),    *)
(* the returned date is the base date exactly, time of day included, and   *)
(* hasDate and hasTime are both false.                                     *)
C13_NoMatchKeepsBase ==
    (parse.out.done /\ NoDateTimeWords(StripBullet(parse.text))) =>
        /\ parse.out.date = parse.base
        /\ ~parse.out.hasDate
        /\ ~parse.out.hasTime

(* "Buy milk" was parsed against a base of 09:41:27 and came back with it *)
C13_Witness ==
    /\ parse.text = <<"B", "u", "y", " ", "m", "i", "l", "k">>
    /\ parse.out.done
    /\ parse.base.sec % 60 # 0
    /\ parse.out.date = parse.base
    /\ ~parse.out.hasDate /\ ~parse.out.hasTime

(* C14, as claimed: "Tomorrow 5pm" gives tomorrow at 17:00 with both flags *)
(* set and a title that has neither "tomorrow" nor "5pm" in it.            *)
C14_TomorrowFivePmStripped ==
    (parse.out.done /\ parse.text = TomorrowFivePm) =>
        /\ parse.out.date = [day |-> parse.today.day + 1, sec |-> 17 * 3600]
        /\ parse.out.hasDate /\ parse.out.hasTime
        /\ ~Contains(parse.out.title, TomorrowWords[1])
        /\ ~Contains(parse.out.title, <<"5", "p", "m">>)

(* C14, amended: "Tomorrow 5pm" gives tomorrow at 17:00 with both flags    *)
(* set; nothing is left of the text once both fragments are removed, so    *)
(* the title falls back to the line as typed, "Tomorrow 5pm".              *)
C14_TomorrowFivePmFallsBack ==
    (parse.out.done /\ parse.text = TomorrowFivePm) =>
        /\ parse.out.date = [day |-> parse.today.day + 1, sec |-> 17 * 3600]
        /\ parse.out.hasDate /\ parse.out.hasTime
        /\ parse.out.title = TomorrowFivePm

(* "Tomorrow 5pm" was parsed on a Friday *)
C14_Witness ==
    /\ parse.text = TomorrowFivePm
    /\ parse.out.done
    /\ DayOfWeek(parse.today.day) = 5
    /\ parse.out.date = [day |-> parse.today.day + 1, sec |-> 17 * 3600]
    /\ parse.out.title = parse.text

(* The hour the 12-hour rules give for hour h and meridian m *)
ClaimedHour(h, m) ==
    IF m = "pm" /\ h < 12 THEN h + 12
    ELSE IF m = "am" /\ h = 12 THEN 0
    ELSE IF m = "none" /\ h < 7 THEN h + 12
    ELSE h

(* C15: for an hour 0..99 and a meridian (none, am, pm): pm below 12 adds  *)
(* 12, 12am is 0, a bare hour below 7 adds 12, anything else is kept; the  *)
(* time is applied (hasTime, date at that hour of the base day) only when  *)
(* the result is in 0..23, otherwise the date stays the base date.         *)
C15_HourNormalisation ==
    \A h \in 0..99 : \A m \in MeridianKinds :
        (parse.out.done /\ parse.text = HourLine(h, m)) =>
            IF ClaimedHour(h, m) \in 0..23
            THEN /\ parse.out.hasTime
                 /\ parse.out.date = [day |-> parse.base.day,
                                      sec |-> ClaimedHour(h, m) * 3600]
            ELSE /\ ~parse.out.hasTime
                 /\ parse.out.date = parse.base

(* "at 2" came back as 14:00 *)
C15_Witness ==
    /\ parse.text = HourLine(2, "none")
    /\ parse.out.done
    /\ parse.out.hasTime
    /\ parse.out.date.sec = 14 * 3600

(* HH:MM read off a line that is nothing but a clock time *)
ClockSeconds(text) ==
    LET nd == IF text[2] = ":" THEN 1 ELSE 2
        hh == IF nd = 2 THEN TwoDigits(text, 1) ELSE DigitValue(text[1])
    IN hh * 3600 + TwoDigits(text, nd + 2) * 60

(* C16: a 24-hour time HH:MM ("06:30", "00:15", "17:00") without a         *)
(* meridian gives exactly HH:MM on the base day.                           *)
C16_TwentyFourHourExact ==
    (parse.out.done /\ parse.text \in ClockLines) =>
        /\ parse.out.hasTime
        /\ parse.out.date = [day |-> parse.base.day, sec |-> ClockSeconds(parse.text)]

(* C17: a weekday name resolves to the next occurrence of that weekday     *)
(* strictly after today, at most a week ahead.                             *)
C17_NextOccurrence ==
    \A k \in DOMAIN WeekdayLines :
        (parse.out.done /\ parse.text = WeekdayLines[k]) =>
            /\ parse.out.hasDate
            /\ parse.out.date.day > parse.today.day
            /\ parse.out.date.day <= parse.today.day + 7
            /\ DayOfWeek(parse.out.date.day) = k - 1

(* The line has a tomorrow word and "today", and no weekday name *)
HasTomorrowAndToday(text) ==
    /\ KeywordMatch(text, TomorrowWords).at > 0
    /\ KeywordMatch(text, TodayWords).at > 0
    /\ DayMatch(text).at = 0

(* C18, as claimed: when the line has both a tomorrow word and "today",    *)
(* only the tomorrow pass applies and the date is today + 1.               *)
C18_TomorrowWins ==
    (parse.out.done /\ HasTomorrowAndToday(parse.text)) =>
        parse.out.date.day = parse.today.day + 1

(* C18, amended: when the line has both a tomorrow word and "today" (and   *)
(* no weekday name), both passes apply in that order and the today pass    *)
(* overwrites the date: hasDate is set, the date is the real today, and    *)
(* both words are removed from the title.                                  *)
C18_TodayOverwrites ==
    (parse.out.done /\ HasTomorrowAndToday(parse.text)) =>
        /\ parse.out.hasDate
        /\ parse.out.date.day = parse.today.day
        /\ ~Contains(parse.out.title, TomorrowWords[1])
        /\ ~Contains(parse.out.title, TodayWords[1])

(* "today and tomorrow" was dated today, and "and" is what is left *)
C18_Witness ==
    /\ parse.text = <<"t", "o", "d", "a", "y", " ", "a", "n", "d", " ",
                      "t", "o", "m", "o", "r", "r", "o", "w">>
    /\ parse.out.done
    /\ parse.out.date.day = parse.today.day
    /\ parse.out.title = <<"a", "n", "d">>

(* C19, as claimed: parsing a returned title that has no date or time      *)
(* words gives the same title back, with hasDate and hasTime false, also   *)
(* when the title begins with a list marker.                               *)
C19_TitleIdempotent ==
    (parse.again.done /\ NoDateTimeWords(parse.out.title)) =>
        /\ parse.again.title = parse.out.title
        /\ ~parse.again.hasDate
        /\ ~parse.again.hasTime

(* The title begins with what a parse strips from the front: a list marker *)
(* followed by white space, or one of - * , .                              *)
LeadingMarker(title) ==
    \/ BulletLen(title) > 0
    \/ CharAt(title, 1, LAMBDA c : c \in {"-", "*", ",", "."})

(* C19, amended: parsing a returned title that has no date or time words   *)
(* gives hasDate and hasTime false; it gives the same title back when the  *)
(* title does not begin with a list marker followed by white space nor     *)
(* with one of - * , . and a title that does begin so comes back without   *)
(* that marker unless nothing else is in it.                               *)
C19_IdempotentUnlessMarker ==
    (parse.again.done /\ NoDateTimeWords(parse.out.title)) =>
        /\ ~parse.again.hasDate
        /\ ~parse.again.hasTime
        /\ ~LeadingMarker(parse.out.title) => parse.again.title = parse.out.title
        /\ (LeadingMarker(parse.out.title) /\ parse.again.title = parse.out.title) =>
              CleanTitle(StripBullet(parse.out.title)) = <<>>

(* "1. a) Buy milk" gave "a) Buy milk", which gave "Buy milk" *)
C19_Witness ==
    /\ parse.again.done
    /\ parse.out.title = <<"a", ")", " ", "B", "u", "y", " ", "m", "i", "l", "k">>
    /\ parse.again.title = <<"B", "u", "y", " ", "m", "i", "l", "k">>

(* C20, as claimed: the same text and base date give the same result       *)
(* whenever the call is made.                                              *)
C20_SameWhenever ==
    parse.later.done => parse.later = parse.out

(* The line has a tomorrow word and neither "today" nor a weekday name *)
OnlyTomorrow(text) ==
    /\ KeywordMatch(text, TomorrowWords).at > 0
    /\ KeywordMatch(text, TodayWords).at = 0
    /\ DayMatch(text).at = 0

(* C20, amended: the same text and base date give the same result when the *)
(* two calls are made on the same calendar day, and on any days when the   *)
(* text has no tomorrow, today or weekday word (hasDate is false); a text  *)
(* with "tomorrow" gives a date one day later when called one day later.   *)
C20_SameOnSameDay ==
    parse.later.done =>
        /\ (parse.laterAt.day = parse.today.day \/ ~parse.out.hasDate) =>
              parse.later = parse.out
        /\ OnlyTomorrow(StripBullet(parse.text)) =>
              parse.later.date.day - parse.out.date.day
                  = parse.laterAt.day - parse.today.day

(* "Call mom tomorrow" was parsed on two consecutive days and the dates    *)
(* are a day apart; the time of day and the title are the same.            *)
C20_Witness ==
    /\ parse.later.done
    /\ parse.laterAt.day = parse.today.day + 1
    /\ OnlyTomorrow(parse.text)
    /\ parse.later.date.day = parse.out.date.day + 1
    /\ parse.later.date.sec = parse.out.date.sec
    /\ parse.later.title = parse.out.title
    /\ parse.later # parse.out

----------------------------------------------------------------------------
(* Properties of the user handlers and of their interleaving with the      *)
(* interval callbacks.                                                     *)

(* A save of the task form in edit mode: a counted operation on the task   *)
(* view that keeps every record of the rendered list in place and leaves   *)
(* `completed` alone.                                                      *)
TaskEditStep ==
    /\ ops' = ops + 1
    /\ view = "TASKS"
    /\ Len(tasks') = Len(rTasks)
    /\ \A i \in DOMAIN rTasks :
          tasks'[i].id = rTasks[i].id /\ tasks'[i].completed = rTasks[i].completed

(* C21: a saved edit of a Task, compared with the record the save was      *)
(* computed from: with the due date unchanged, hasAlerted and              *)
(* lastAlertedAt keep their values; with the due date changed,             *)
(* lastAlertedAt is cleared and hasAlerted becomes false when the new due  *)
(* time is later than the time of the save and keeps its value otherwise.  *)
C21_EditResetsOnDueChange ==
    [][ TaskEditStep =>
          \A i \in DOMAIN rTasks :
             LET t == rTasks[i]
                 u == tasks'[i]
             IN /\ u.dueDate = t.dueDate =>
                      u.hasAlerted = t.hasAlerted /\ u.lastAlertedAt = t.lastAlertedAt
                /\ u.dueDate # t.dueDate =>
                      /\ NoStamp(u)
                      /\ u.hasAlerted = IF u.dueDate > now THEN FALSE ELSE t.hasAlerted
      ]_vars

(* A Task that a tick had fired was given a due time later than the save:  *)
(* it lost its lastAlertedAt and is ready to alert again.                  *)
C21_Witness ==
    \E i \in DOMAIN tasks : \E t \in Range(rTasks) :
        /\ t.id = tasks[i].id
        /\ t.hasAlerted /\ ~NoStamp(t)
        /\ tasks[i].dueDate # t.dueDate /\ tasks[i].dueDate > now
        /\ ~tasks[i].hasAlerted /\ NoStamp(tasks[i])


(* C22: a repeating Task or CalendarEvent without lastAlertedAt is         *)
(* eligible in every tick that finds it due (Task: not completed and due   *)
(* not after now; CalendarEvent: inside its window), whether or not its    *)
(* hasAlerted is set.                                                      *)
C22_UnsetStampFiresFirstTime ==
    /\ fired.kind = "task" =>
          \A t \in Range(rTasks) :
              (t.alertRepeat \in {"every_3", "every_5"} /\ NoStamp(t)
                  /\ ~t.completed /\ t.dueDate <= fired.at)
                  => t.id \in fired.eligible
    /\ fired.kind = "event" =>
          \A ev \in Range(rEvents) :
              (ev.alertRepeat \in {"every_3", "every_5"} /\ NoStamp(ev)
                  /\ fired.at >= ev.start - ev.alertOffset * 60000
                  /\ fired.at - ev.end < 7200000)
                  => ev.id \in fired.eligible

(* A tick fired a repeating Task that carried hasAlerted = true and no     *)
(* lastAlertedAt.                                                          *)
C22_Witness ==
    /\ fired.kind = "task"
    /\ \E t \in Range(rTasks) :
          /\ t.alertRepeat \in {"every_3", "every_5"}
          /\ t.hasAlerted /\ NoStamp(t)
          /\ t.id \in fired.ids


(* C23: a task tick leaves the CalendarEvent collection as it was and an   *)
(* event tick leaves the Task collection as it was, the state as well as   *)
(* the copy the other component last rendered.                             *)
C23_DisjointCollections ==
    [][ /\ TaskTickStep => (events' = events /\ rEvents' = rEvents)
        /\ EventTickStep => (tasks' = tasks /\ rTasks' = rTasks)
      ]_vars

(* An event tick fired an event, and later a task tick fired a Task: the   *)
(* event still carries the stamp of its own tick, and the calendar copy    *)
(* of the Task carries none.                                               *)
C23_Witness ==
    /\ fired.kind = "task"
    /\ \E t \in Range(tasks) : t.id \in fired.ids /\ t.lastAlertedAt = fired.at
    /\ \E ev \in Range(events) : ~Imported(ev) /\ ev.hasAlerted /\ ~NoStamp(ev)
    /\ \E ev \in Range(events) :
          /\ ev.id.pre = "evt" /\ [pre |-> "", n |-> ev.id.n] \in fired.ids
          /\ NoStamp(ev)


(* C24: after a bulk save, the result for every line is what               *)
(* parseSmartDate returns for that line alone with the form's date, the    *)
(* Date handed to the parser is still the form's date, and the saved       *)
(* records carry those results in the order of the lines.                  *)
C24_LinesParsedIndependently ==
    parse.saved =>
        /\ parse.base = parse.form
        /\ Len(parse.made) = Len(parse.lines)
        /\ \A k \in DOMAIN parse.lines :
              /\ parse.made[k] =
                    Returned(ParseSmartDate(parse.lines[k], parse.form, parse.today))
              /\ view = "TASKS" => tasks[k].dueDate = Ms(parse.made[k].date)
              /\ view = "SCHEDULER" => events[k].start = Ms(parse.made[k].date)

(* A list was saved whose first line sets day and time ("Tomorrow 5pm")    *)
(* and whose second line names neither: the second record has the form's   *)
(* date and time.                                                          *)
C24_Witness ==
    /\ parse.saved
    /\ Len(parse.lines) >= 2
    /\ parse.lines[1] = TomorrowFivePm
    /\ parse.made[1].date = [day |-> Friday.day + 1, sec |-> 17 * 3600]
    /\ NoDateTimeWords(parse.lines[2])
    /\ parse.made[2].date = parse.form
    /\ view = "TASKS" /\ tasks[2].dueDate = Ms(parse.form)


(* C25: with the task timer ticking and no edits, a Task that a tick finds *)
(* eligible is fired by that tick or a later one; stated for the 'once'    *)
(* Task at the end of the list, behind the repeating ones.                 *)
C25_NoTaskStarves ==
    ([pre |-> "", n |-> Len(tasks)] \in fired.eligible)
        ~> ([pre |-> "", n |-> Len(tasks)] \in fired.ids)


(* C26: a user action on the Task collection that runs while the update of *)
(* a task tick waits for its commit keeps that update: every Task the tick *)
(* fired that is still in the collection, its due date untouched, has      *)
(* hasAlerted = true and the lastAlertedAt the tick wrote.                 *)
C26_NoLostUpdate ==
    [][ (fired.kind = "task" /\ fired.ids # {} /\ fired' = fired /\ tasks' # tasks) =>
          \A i \in DOMAIN tasks' : \A j \in DOMAIN tasks :
              (/\ tasks'[i].id = tasks[j].id
               /\ tasks[j].id \in fired.ids
               /\ tasks'[i].dueDate = tasks[j].dueDate)
                  => (tasks'[i].hasAlerted /\ tasks'[i].lastAlertedAt = fired.at)
      ]_vars


(* C27: saving an edit of a 'once' CalendarEvent that a tick has fired,     *)
(* with start, end and alertOffset as they were, leaves it alerted, so     *)
(* that no later tick finds it eligible.                                   *)
C27_EventEditKeepsAlerted ==
    [][ (/\ ops' = ops + 1
         /\ view = "SCHEDULER"
         /\ tasks' = tasks
         /\ Len(events') = Len(events)) =>
          \A i \in DOMAIN events :
              (/\ events'[i].id = events[i].id
               /\ events[i].hasAlerted /\ ~NoStamp(events[i])
               /\ events[i].alertRepeat = "once" /\ events'[i].alertRepeat = "once"
               /\ events'[i].start = events[i].start
               /\ events'[i].end = events[i].end
               /\ events'[i].alertOffset = events[i].alertOffset)
                  => events'[i].hasAlerted
      ]_vars


(* C28: a creation in the task view appends one Task and one               *)
(* CalendarEvent whose id is 'evt-' followed by the Task's id; a creation  *)
(* in the schedule view appends one CalendarEvent and one Task whose id is *)
(* 'task-' followed by the event's id; nothing else is added or changed.   *)
C28_ImportDoesNotCascade ==
    [][ nextId' # nextId =>
          /\ Len(tasks') = Len(tasks) + 1
          /\ Len(events') = Len(events) + 1
          /\ SubSeq(tasks', 1, Len(tasks)) = tasks
          /\ SubSeq(events', 1, Len(events)) = events
          /\ view = "TASKS" =>
                /\ tasks'[Len(tasks')].id = [pre |-> "", n |-> nextId]
                /\ events'[Len(events')].id = [pre |-> "evt", n |-> nextId]
          /\ view = "SCHEDULER" =>
                /\ events'[Len(events')].id = [pre |-> "", n |-> nextId]
                /\ tasks'[Len(tasks')].id = [pre |-> "task", n |-> nextId]
      ]_vars

(* One Task was created in the task view and one CalendarEvent in the      *)
(* schedule view: each collection holds the user's record and the copy of  *)
(* the other one, and nothing more.                                        *)
C28_Witness ==
    /\ Len(tasks) = 2 /\ Len(events) = 2
    /\ \E a, b \in 1..2 :
          /\ a # b
          /\ Ids(tasks) = {[pre |-> "", n |-> a], [pre |-> "task", n |-> b]}
          /\ Ids(events) = {[pre |-> "evt", n |-> a], [pre |-> "", n |-> b]}


(* C29: at most one interval of each component exists at any time, and     *)
(* none of a component that is not mounted: every run of the effect and    *)
(* every unmount clears the interval of the run before.                    *)
C29_OneTimerPerCollection ==
    /\ \A k \in {"task", "event"} :
          \A i, j \in timer.live : (i.kind = k /\ j.kind = k) => i = j
    /\ \A i \in timer.live : timer.view # "DASHBOARD" /\ i.kind = KindOf(timer.view)

(* After a task callback the collection changed and the effect ran again:  *)
(* the one task interval that exists is the new one, a full period away    *)
(* from the change and not from the last callback.                         *)
C29_Witness ==
    /\ timer.view = "TASKS"
    /\ timer.last.task >= 0
    /\ timer.last.event >= 0
    /\ timer.restarted.task
    /\ \E i \in timer.live :
          /\ i.kind = "task"
          /\ i.due > timer.t
          /\ i.due # timer.last.task + TaskPeriodMs
          /\ timer.live = {i}


(* C30: the generation of a recurring series ends, with 365 instances at   *)
(* most; the loop is left only when the next start is after the end date   *)
(* or 365 instances exist; every instance has hasAlerted = false and no    *)
(* lastAlertedAt.                                                          *)
C30_SeriesTerminates ==
    /\ [](/\ series.count <= 365
          /\ Len(series.all) = series.count
          /\ \A ev \in Range(series.all) : ~ev.hasAlerted /\ NoStamp(ev)
          /\ series.pc # "loop" =>
                \/ series.count = 365
                \/ ~NotAfter(series.currentStart, series.endDate))
    /\ <>(series.pc = "saved")

(* A daily series with an end date more than a year away was saved: it     *)
(* stopped at 365 instances with the next start still before the end date. *)
C30_Witness ==
    /\ series.pc = "saved"
    /\ series.rule = "daily"
    /\ series.count = 365
    /\ NotAfter(series.currentStart, series.endDate)
    /\ Len(events) = 365 /\ Len(tasks) = 365

====
